---- MODULE Spec2Model ----
(***************************************************************************)
(* A model of sand-go: the OAuth2 client-credentials token client          *)
(* (sand.Client: Request, RequestWithCustomRetry, Token, OAuth2Token,      *)
(* OAuth2TokenWithoutCaching) and the token verifier (sand.Service:        *)
(* CheckRequest, VerifyRequest, VerifyTokenWithCache, verifyToken) on top  *)
(* of the TTL cache adapter (cache.GoCache).  One caller drives the        *)
(* client or the service; the authorization server, the dependent service  *)
(* (the exec function) and the passing of time are the environment.  Time  *)
(* is counted in whole seconds and kept relative to the present: an expiry *)
(* is the number of seconds left.                                          *)
(***************************************************************************)
EXTENDS Integers, Sequences, FiniteSets, TLC

(***************************************************************************)
(* Bounds of the model.                                                    *)
(***************************************************************************)
\* Largest retry count a caller passes or configures as DefaultRetryCount.
MaxRetry == 2
\* Largest magnitude of the arguments the retry-count rules are applied to.
MaxArg == 4
\* The DefaultExpTime of the Service, in seconds; the "exp" of a verdict lies
\* up to one second beyond it.
MaxExpTime == 2

(***************************************************************************)
(* Input domains.                                                          *)
(***************************************************************************)
RetryCounts == -1 .. MaxRetry
RetryArgs == -MaxArg .. MaxArg
Keys == {"", "resource"}
ScopeLists == {<<>>, <<"scope">>}
AccessTokens == {"abc", "def"}
\* Lifetimes (seconds) the authorization server grants; 0: no expires_in.
ExpiresIn == {0, 1}
StatusOK == 200
StatusUnauthorized == 401
StatusBadGateway == 502
Statuses == {StatusOK, StatusUnauthorized, StatusBadGateway}

(***************************************************************************)
(* Values.                                                                 *)
(***************************************************************************)
NilErr == [kind |-> "nil", msg |-> ""]
ExecErr == [kind |-> "errorString", msg |-> "Test"]
OAuthErr == [kind |-> "oauth2", msg |-> "oauth2: cannot fetch token"]
NilResp == [nil |-> TRUE, StatusCode |-> 0]
\* An oauth2.Token.  Expiry is the time left until it expires (negative once
\* it has), and is meaningless when ExpiryIsZero (no expiry).
NilToken == [nil |-> TRUE, AccessToken |-> "", ExpiryIsZero |-> TRUE, Expiry |-> 0]
IssuedToken(a, e) ==
    [nil |-> FALSE, AccessToken |-> a, ExpiryIsZero |-> (e <= 0), Expiry |-> IF e <= 0 THEN 0 ELSE e]
Response(status) == [nil |-> FALSE, StatusCode |-> status]

\* A faulty variant: the error is passed on as it is.
UnwrappedError(e) == [kind |-> e.kind, msg |-> e.msg]

\* AuthenticationError{err.Error()}
AuthenticationError(e) == [kind |-> "AuthenticationError", msg |-> e.msg]

(***************************************************************************)
(* Values of the Service.                                                  *)
(***************************************************************************)
\* A JSON value of a verification response: absent, a boolean, a number or
\* a string.  A string in the iso8601 layout is kept as the instant it
\* denotes, in seconds from now.
JAbsent == [type |-> "absent", bool |-> FALSE, str |-> "", unix |-> 0]
JBool(b) == [type |-> "bool", bool |-> b, str |-> "", unix |-> 0]
JNumber == [type |-> "number", bool |-> FALSE, str |-> "", unix |-> 0]
JString(s) == [type |-> "string", bool |-> FALSE, str |-> s, unix |-> 0]
iso8601 == "2006-01-02T15:04:05.00-07:00"
JTime(t) == [type |-> "string", bool |-> FALSE, str |-> iso8601, unix |-> t]

\* A map[string]interface{} of a verdict: its "allowed" and "exp" entries.
NilVerdict == [nil |-> TRUE, allowed |-> JAbsent, exp |-> JAbsent]
Verdict(allowed, exp) == [nil |-> FALSE, allowed |-> allowed, exp |-> exp]
notAllowedResponse == Verdict(JBool(FALSE), JAbsent)

\* A *int of a VerificationOption.
NilInt == [nil |-> TRUE, n |-> 0]
IntPtr(n) == [nil |-> FALSE, n |-> n]

\* A []string: nil, or a slice with its elements.  len() and strings.Join
\* see the elements only, and a nil slice has none.
NilSlice == [nil |-> TRUE, elems |-> <<>>]
Slice(elems) == [nil |-> FALSE, elems |-> elems]

\* A map[string]interface{}: nil, or a map with its <<key, value>> entries.
\* len() counts the entries, and a nil map has none.
NilMap == [nil |-> TRUE, entries |-> <<>>]
Map(entries) == [nil |-> FALSE, entries |-> entries]

\* VerificationOption
NoOpt ==
    [TargetScopes |-> NilSlice, Resource |-> "", Action |-> "", Context |-> NilMap,
     NumRetry |-> NilInt]

\* What verifyToken returns: (resp, err).
NoOut == [resp |-> NilVerdict, err |-> NilErr]

\* The call before the running one, when it ended on a 500 of the
\* verification endpoint (kept for the properties only).
NoLast == [status |-> 0, token |-> "", scopes |-> <<>>, resource |-> ""]

\* No Service: the client is used on its own.
NoSv ==
    [isService |-> FALSE, ClientID |-> "", Resource |-> "", Context |-> NilMap,
     Scopes |-> <<>>, DefaultExpTime |-> 0,
     header |-> <<>>, token |-> "", opt |-> NoOpt, out |-> NoOut, last |-> NoLast]

\* The dynamic types a cached value is asserted to have.
IsOAuth2Token(value) == "AccessToken" \in DOMAIN value

VARIABLES
    sv,                 \* the Service around the client: its fields and locals
    DefaultRetryCount,  \* c.DefaultRetryCount
    cacheOn,            \* c.Cache != nil
    cache,              \* the items of the GoCache: key -> [Object, Expiration]
    pc,                 \* position of the caller
    call,               \* the running top-level call and its arguments
    rq,                 \* locals of RequestWithCustomRetry
    tk,                 \* locals of Token / OAuth2Token / OAuth2TokenWithoutCaching
    result,             \* what the top-level call returned
    trace               \* what the running call has done, in order

vars == <<sv, DefaultRetryCount, cacheOn, cache, pc, call, rq, tk, result, trace>>

(***************************************************************************)
(* Pure helpers of the client.                                             *)
(***************************************************************************)
RECURSIVE Pow2(_)
\* math.Pow(2, float64(retry)), exact for the retry counts of the model.
Pow2(n) == IF n <= 0 THEN 1 ELSE 2 * Pow2(n - 1)

RECURSIVE Join(_, _)
\* strings.Join(scopes, sep)
Join(scopes, sep) ==
    IF Len(scopes) = 0 THEN ""
    ELSE IF Len(scopes) = 1 THEN scopes[1]
    ELSE scopes[1] \o sep \o Join(Tail(scopes), sep)

CacheRoot == "sand"
\* c.cacheType: "resources" from NewClient, set to "tokens" by NewService
cacheType == IF sv.isService THEN "tokens" ELSE "resources"

\* A faulty variant: the scopes are appended even when there are none.
cacheKeyAlwaysScopes(key, scopes, resource) ==
    LET rv0 == CacheRoot \o "/" \o cacheType \o "/" \o key
        rv1 == rv0 \o "/" \o Join(scopes, "_")
    IN  IF resource # "" THEN rv1 \o "/" \o resource ELSE rv1

\* Client.cacheKey
cacheKey(key, scopes, resource) ==
    LET rv0 == CacheRoot \o "/" \o cacheType \o "/" \o key
        rv1 == IF Len(scopes) > 0 THEN rv0 \o "/" \o Join(scopes, "_") ELSE rv0
    IN  IF resource # "" THEN rv1 \o "/" \o resource ELSE rv1

\* A faulty variant: a default below 1 is not raised to 1.
clientRequestRetryCountNoFloor(D, count) ==
    IF count >= 1 THEN count
    ELSE IF count = 0 THEN 1
    ELSE D

\* Client.clientRequestRetryCount, with c.DefaultRetryCount = D
clientRequestRetryCount(D, count) ==
    IF count >= 1 THEN count
    ELSE IF count = 0 \/ D < 1 THEN 1
    ELSE D

\* A faulty variant: the rule of the client-request count is used (0 becomes 1).
tokenRequestRetryCountLikeClient(D, count) ==
    IF count >= 1 THEN count
    ELSE IF count = 0 \/ D < 1 THEN 1
    ELSE D

\* Client.tokenRequestRetryCount, with c.DefaultRetryCount = D
tokenRequestRetryCount(D, count) ==
    IF count >= 0 THEN count
    ELSE IF D < 0 THEN 0
    ELSE D

\* A faulty variant: the exponent is taken one too high.
BackoffSecondsLate(retry) == Pow2(retry + 1)

\* RequestWithCustomRetry: the backoff before retry number `retry` (from 0),
\* in seconds.
BackoffSeconds(retry) == Pow2(retry)

\* OAuth2TokenWithoutCaching: the backoff before retry number `retry`.
TokenBackoffSeconds(retry) == Pow2(retry)

\* A faulty variant: the loop makes one retry more than asked.
ShouldRetryOneMore(resp, retry, clientRetry) ==
    resp.StatusCode = StatusUnauthorized /\ retry <= clientRetry

\* A faulty variant: the loop retries on every status that is not a success.
ShouldRetryAnyFailure(resp, retry, clientRetry) ==
    resp.StatusCode # StatusOK /\ retry < clientRetry

\* The condition of the retry loop of RequestWithCustomRetry.
ShouldRetry(resp, retry, clientRetry) ==
    resp.StatusCode = StatusUnauthorized /\ retry < clientRetry

\* A faulty variant: a retry iteration passes the caller's numRetry on to Token.
RetryTokenNumRetryAsGiven == call.numRetry

\* The numRetry that a 401 retry iteration passes to Token.
RetryTokenNumRetry == 0

\* A faulty variant: the loop makes one retry more than asked.
ShouldRetryTokenOneMore(err, retry, numRetry) ==
    err.kind # "nil" /\ numRetry > 0 /\ retry <= numRetry

\* The condition of the retry loop of OAuth2TokenWithoutCaching.
ShouldRetryToken(err, retry, numRetry) ==
    err.kind # "nil" /\ numRetry > 0 /\ retry < numRetry

(***************************************************************************)
(* The cache adapter (cache.GoCache over go-cache).  An item's Expiration  *)
(* is the time it has left, or NoExpiration; an expired item is never      *)
(* returned, and is dropped from the map as soon as it has expired.        *)
(***************************************************************************)
NoExpiration == -1
NoItem == [found |-> FALSE, Object |-> NilToken]

\* A faulty variant: the cached value is never recognised (every read is a miss).
CacheReadMiss(items, key) == NoItem

\* GoCache.Read
CacheRead(items, key) ==
    IF key \in DOMAIN items
       /\ ~(items[key].Expiration # NoExpiration /\ items[key].Expiration < 0)
    THEN [found |-> TRUE, Object |-> items[key].Object]
    ELSE NoItem

\* A faulty variant: exp = 0 is left to the cache, which takes it for its
\* default expiration (here: a second).
CacheWriteDefaultExpiration(items, key, item, exp) ==
    LET d == IF exp = 0 THEN 1 ELSE exp
        it == [Object |-> item, Expiration |-> IF d > 0 THEN d ELSE NoExpiration]
    IN  [k \in DOMAIN items \cup {key} |-> IF k = key THEN it ELSE items[k]]

\* A faulty variant: an item that is in the cache is not replaced.
CacheWriteIfAbsent(items, key, item, exp) ==
    LET d == IF exp = 0 THEN NoExpiration ELSE exp
        it == [Object |-> item, Expiration |-> IF d > 0 THEN d ELSE NoExpiration]
    IN  [k \in DOMAIN items \cup {key} |-> IF k \in DOMAIN items THEN items[k] ELSE it]

\* GoCache.Write: exp = 0 is turned into "no expiration"
CacheWrite(items, key, item, exp) ==
    LET d == IF exp = 0 THEN NoExpiration ELSE exp
        it == [Object |-> item, Expiration |-> IF d > 0 THEN d ELSE NoExpiration]
    IN  [k \in DOMAIN items \cup {key} |-> IF k = key THEN it ELSE items[k]]

\* A faulty variant: Delete leaves the item in place.
CacheDeleteNothing(items, key) == items

\* A faulty variant: Clear drops only the items that can expire.
CacheClearExpiring(items) ==
    [k \in {j \in DOMAIN items : items[j].Expiration = NoExpiration} |-> items[k]]

\* GoCache.Clear: c.Flush()
CacheClear(items) == [k \in {} |-> items[k]]

\* GoCache.Delete
CacheDelete(items, key) == [k \in DOMAIN items \ {key} |-> items[k]]

(***************************************************************************)
(* The passing of d seconds.                                               *)
(***************************************************************************)
\* A token d seconds later.  How long ago a token expired is not kept.
AgeToken(t, d) ==
    IF t.ExpiryIsZero THEN t
    ELSE [t EXCEPT !.Expiry = IF t.Expiry - d < 0 THEN -1 ELSE t.Expiry - d]

\* A verdict d seconds later: the instant of its "exp" has come nearer.
AgeVerdict(v, d) ==
    IF v.exp.str # iso8601 THEN v
    ELSE [v EXCEPT !.exp.unix = IF v.exp.unix - d < 0 THEN -1 ELSE v.exp.unix - d]

AgeItem(item, d) ==
    [Object |-> IF IsOAuth2Token(item.Object) THEN AgeToken(item.Object, d)
                ELSE AgeVerdict(item.Object, d),
     Expiration |-> IF item.Expiration = NoExpiration THEN NoExpiration
                    ELSE item.Expiration - d]

\* The cache d seconds later.
Elapse(items, d) ==
    LET live == {k \in DOMAIN items :
                     items[k].Expiration = NoExpiration \/ items[k].Expiration >= d}
    IN  [k \in live |-> AgeItem(items[k], d)]

EmptyCache == [k \in {} |-> NoItem]

(***************************************************************************)
(* The state after construction (NewClient, then the fields a caller may   *)
(* set before use: DefaultRetryCount, Cache).                              *)
(***************************************************************************)
NoCall == [op |-> "none", cacheKey |-> "", scopes |-> <<>>, numRetry |-> 0]
NoRq == [clientRetry |-> 0, retry |-> 0, token |-> "", resp |-> NilResp, first |-> TRUE]
NoTk == [numRetry |-> 0, retry |-> 0, token |-> NilToken, ret |-> "none"]
NoResult == [token |-> "", resp |-> NilResp, err |-> NilErr, rv |-> NilVerdict]

\* One entry of the trace: what was done, its number (seconds slept, status
\* received, TTL written) and whether it succeeded (a hit, a token, no error).
Event(ev, n, ok) == [ev |-> ev, n |-> n, ok |-> ok]

Init ==
    /\ sv = NoSv
    /\ DefaultRetryCount \in RetryCounts
    /\ cacheOn \in BOOLEAN
    /\ cache = EmptyCache
    /\ pc = "idle"
    /\ call = NoCall
    /\ rq = NoRq
    /\ tk = NoTk
    /\ result = NoResult
    /\ trace = <<>>

(***************************************************************************)
(* Token / OAuth2Token / OAuth2TokenWithoutCaching                         *)
(***************************************************************************)
\* Entering Token(cacheKey, scopes, numRetry) from the place `ret`.
EnterToken(numRetry, ret) ==
    [numRetry |-> numRetry, retry |-> 0, token |-> NilToken, ret |-> ret]

\* Whether OAuth2Token uses the cache for this call.
UsesCache == cacheOn /\ call.cacheKey # ""

\* A faulty variant: the error of VerifyTokenWithCache is passed on as it is.
VerifyRequestErrorAsIs(err) == err

\* VerifyRequest: an error of VerifyTokenWithCache is wrapped.
VerifyRequestError(err) ==
    IF err.kind = "nil" THEN err
    ELSE [kind |-> "AuthenticationError",
          msg |-> "Service failed to verify the token: " \o err.msg]

\* VerifyTokenWithCache: what it returns for the (resp, err) of verifyToken.
VerifyTokenWithCacheReturns(resp, err) ==
    IF err.kind # "nil" \/ resp.nil
    THEN [rv |-> notAllowedResponse, err |-> err]
    ELSE [rv |-> resp, err |-> NilErr]

\* What the running call of the service returns when VerifyTokenWithCache
\* returns r: VerifyRequest (and with it CheckRequest) wraps the error.
ServiceReturns(r) ==
    [NoResult EXCEPT !.rv = r.rv,
                     !.err = IF call.op = "VerifyRequest"
                             THEN VerifyRequestError(r.err) ELSE r.err]

\* Token returns (token, err) to the place it was called from: the top
\* level, the start of RequestWithCustomRetry, a 401 retry iteration, or
\* verifyToken.
TokenReturns(token, err) ==
    LET access == IF err.kind = "nil" THEN token.AccessToken ELSE ""
    IN  CASE tk.ret = "top" ->
               /\ result' = [NoResult EXCEPT !.token = access, !.err = err]
               /\ pc' = "done"
               /\ rq' = rq
          [] tk.ret = "request" ->
               IF err.kind # "nil"
               THEN /\ result' = [NoResult EXCEPT !.err = err]
                    /\ pc' = "done"
                    /\ rq' = rq
               ELSE /\ rq' = [rq EXCEPT !.token = access]
                    /\ pc' = "exec"
                    /\ result' = result
          [] tk.ret = "retry" ->
               IF err.kind # "nil"
               THEN /\ result' = [NoResult EXCEPT !.resp = rq.resp, !.err = err]
                    /\ pc' = "done"
                    /\ rq' = rq
               ELSE /\ rq' = [rq EXCEPT !.token = access]
                    /\ pc' = "exec"
                    /\ result' = result
          [] tk.ret = "verify" ->
               \* verifyToken: the service's own access token, or (nil, err)
               IF err.kind # "nil"
               THEN /\ result' = ServiceReturns(VerifyTokenWithCacheReturns(NilVerdict, err))
                    /\ pc' = "done"
                    /\ rq' = rq
               ELSE /\ rq' = rq
                    /\ pc' = "verify"
                    /\ result' = result

\* OAuth2Token, the cache lookup: a hit returns the cached token.
OAuth2TokenRead ==
    /\ pc = "tok_read"
    /\ LET value == CacheRead(cache, cacheKey(call.cacheKey, call.scopes, ""))
       IN  IF UsesCache /\ value.found /\ IsOAuth2Token(value.Object)
           THEN /\ trace' = Append(trace, Event("read", 0, TRUE))
                /\ tk' = [tk EXCEPT !.token = value.Object]
                /\ TokenReturns(value.Object, NilErr)
           ELSE /\ trace' = Append(trace, Event("read", 0, FALSE))
                /\ pc' = "tok_fetch"
                /\ UNCHANGED <<tk, rq, result>>
    /\ UNCHANGED <<sv, DefaultRetryCount, cacheOn, cache, call>>

\* OAuth2TokenWithoutCaching: one config.Token(ctx) request and what the
\* loop does with its outcome.
TokenRequest(token, err) ==
    /\ pc = "tok_fetch"
    /\ trace' = Append(trace, Event("fetch", 0, err.kind = "nil"))
    /\ IF ShouldRetryToken(err, tk.retry, tokenRequestRetryCount(DefaultRetryCount, tk.numRetry))
       THEN /\ pc' = "tok_sleep"
            /\ tk' = [tk EXCEPT !.token = token]
            /\ UNCHANGED <<rq, result>>
       ELSE IF err.kind # "nil"
       THEN /\ tk' = [tk EXCEPT !.token = token]
            /\ TokenReturns(token, AuthenticationError(err))
       ELSE /\ tk' = [tk EXCEPT !.token = token]
            /\ pc' = "tok_write"
            /\ UNCHANGED <<rq, result>>
    /\ UNCHANGED <<sv, DefaultRetryCount, cacheOn, cache, call>>

\* The authorization server answers with a token ...
TokenRequestOK ==
    \E a \in AccessTokens, e \in ExpiresIn :
        TokenRequest(IssuedToken(a, e), NilErr)

\* ... or the request fails (no connection, non-2xx, malformed response).
TokenRequestFails == TokenRequest(NilToken, OAuthErr)

\* OAuth2TokenWithoutCaching: the exponential backoff before a retry.
TokenSleep ==
    /\ pc = "tok_sleep"
    /\ cache' = Elapse(cache, TokenBackoffSeconds(tk.retry))
    /\ trace' = Append(trace, Event("toksleep", TokenBackoffSeconds(tk.retry), TRUE))
    /\ tk' = [tk EXCEPT !.retry = tk.retry + 1]
    /\ pc' = "tok_fetch"
    /\ UNCHANGED <<sv, DefaultRetryCount, cacheOn, call, rq, result>>

\* A faulty variant: a lifetime that has run out is written as 0.
ExpiresInNeverNegative(token) ==
    IF ~token.ExpiryIsZero /\ token.Expiry >= 0 THEN token.Expiry ELSE 0

\* OAuth2Token: expiresIn, the lifetime the fetched token has left (0 when
\* it has no expiry).
ExpiresInSeconds(token) == IF ~token.ExpiryIsZero THEN token.Expiry ELSE 0

\* OAuth2Token, after a successful fetch: cache the token and return it.
OAuth2TokenWrite ==
    /\ pc = "tok_write"
    /\ LET expiresIn == ExpiresInSeconds(tk.token)
           ckey == cacheKey(call.cacheKey, call.scopes, "")
       IN  IF UsesCache /\ expiresIn >= 0
           THEN /\ cache' = CacheWrite(cache, ckey, tk.token, expiresIn)
                /\ trace' = Append(trace, Event("write", expiresIn, TRUE))
           ELSE /\ cache' = cache
                /\ trace' = trace
    /\ tk' = tk
    /\ TokenReturns(tk.token, NilErr)
    /\ UNCHANGED <<sv, DefaultRetryCount, cacheOn, call>>

\* Client.Token called by the application.
Token(key, scopes, numRetry) ==
    /\ pc = "idle"
    /\ call' = [op |-> "Token", cacheKey |-> key, scopes |-> scopes, numRetry |-> numRetry]
    /\ tk' = EnterToken(numRetry, "top")
    /\ rq' = NoRq
    /\ result' = NoResult
    /\ trace' = <<>>
    /\ pc' = "tok_read"
    /\ UNCHANGED <<sv, DefaultRetryCount, cacheOn, cache>>

(***************************************************************************)
(* Request / RequestWithCustomRetry                                        *)
(***************************************************************************)
\* RequestWithCustomRetry, up to the first call of Token.
RequestWithCustomRetry(key, scopes, numRetry) ==
    /\ pc = "idle"
    /\ call' = [op |-> "Request", cacheKey |-> key, scopes |-> scopes, numRetry |-> numRetry]
    /\ rq' = [NoRq EXCEPT !.clientRetry = clientRequestRetryCount(DefaultRetryCount, numRetry)]
    /\ tk' = EnterToken(numRetry, "request")
    /\ result' = NoResult
    /\ trace' = <<>>
    /\ pc' = "tok_read"
    /\ UNCHANGED <<sv, DefaultRetryCount, cacheOn, cache>>

\* Client.Request
Request(key, scopes) == RequestWithCustomRetry(key, scopes, DefaultRetryCount)

\* A faulty variant: the status is looked at before the error.
AfterExecStatusFirst(resp, err, retry, clientRetry) ==
    IF clientRetry > 0 /\ ~resp.nil /\ ShouldRetry(resp, retry, clientRetry) THEN "sleep"
    ELSE "done"

\* A faulty variant: a 401 that outlives the retries is turned into an error.
RequestReturnsErrorOn401(resp, err) ==
    [NoResult EXCEPT
        !.resp = resp,
        !.err = IF err.kind = "nil" /\ resp.StatusCode = StatusUnauthorized
                THEN AuthenticationError([msg |-> "unauthorized"]) ELSE err]

\* What RequestWithCustomRetry does once exec has returned (resp, err), with
\* `retry` the loop's counter: return, go into a retry iteration, or crash
\* on reading the status of a nil response.
AfterExec(resp, err, retry, clientRetry) ==
    IF err.kind # "nil" THEN "done"
    ELSE IF clientRetry > 0 /\ resp.nil THEN "panic"
    ELSE IF clientRetry > 0 /\ ShouldRetry(resp, retry, clientRetry) THEN "sleep"
    ELSE "done"

\* What RequestWithCustomRetry returns after exec: (resp, err) as they are.
RequestReturns(resp, err) == [NoResult EXCEPT !.resp = resp, !.err = err]

\* exec(token) returns (resp, err): the first invocation, or the one that
\* ends a retry iteration (followed by retry++ and the loop's condition).
Exec(resp, err) ==
    /\ pc = "exec"
    /\ trace' = Append(trace, Event("exec", resp.StatusCode, err.kind = "nil"))
    /\ LET retry == IF rq.first THEN 0 ELSE rq.retry + 1
       IN  /\ rq' = [rq EXCEPT !.resp = resp, !.retry = retry, !.first = FALSE]
           /\ pc' = AfterExec(resp, err, retry, rq.clientRetry)
           /\ result' = IF pc' = "done" THEN RequestReturns(resp, err) ELSE result
    /\ UNCHANGED <<sv, DefaultRetryCount, cacheOn, cache, call, tk>>

\* The dependent service answers with a status ...
ExecResponds == \E s \in Statuses : Exec(Response(s), NilErr)

\* ... or the caller's function returns an error (with or without a response)
ExecFails == \E r \in {NilResp, Response(StatusOK), Response(StatusUnauthorized)} : Exec(r, ExecErr)

\* ... or returns neither a response nor an error.
ExecReturnsNothing == Exec(NilResp, NilErr)

\* A retry iteration: the backoff sleep.
RetrySleep ==
    /\ pc = "sleep"
    /\ cache' = Elapse(cache, BackoffSeconds(rq.retry))
    /\ trace' = Append(trace, Event("sleep", BackoffSeconds(rq.retry), TRUE))
    /\ pc' = "delete"
    /\ UNCHANGED <<sv, DefaultRetryCount, cacheOn, call, rq, tk, result>>

\* A retry iteration: drop the cached token, then call Token again.
RetryInvalidate ==
    /\ pc = "delete"
    /\ IF cacheOn
       THEN /\ cache' = CacheDelete(cache, cacheKey(call.cacheKey, call.scopes, ""))
            /\ trace' = Append(trace, Event("delete", 0, TRUE))
       ELSE /\ cache' = cache
            /\ trace' = trace
    /\ tk' = EnterToken(RetryTokenNumRetry, "retry")
    /\ pc' = "tok_read"
    /\ UNCHANGED <<sv, DefaultRetryCount, cacheOn, call, rq, result>>

\* The top-level call has returned; the caller goes on.
Return ==
    /\ pc = "done"
    /\ pc' = "idle"
    /\ call' = NoCall
    /\ rq' = NoRq
    /\ tk' = NoTk
    /\ result' = NoResult
    /\ trace' = <<>>
    /\ UNCHANGED <<sv, DefaultRetryCount, cacheOn, cache>>

\* A second passes between calls, or between a token's fetch and its caching
\* (elsewhere in a call the passing of time changes nothing the call reads:
\* a retry iteration has dropped its entry before it looks it up).
Tick ==
    /\ pc \in {"idle", "tok_write"}
    /\ cache' = Elapse(cache, 1)
    /\ tk' = [tk EXCEPT !.token = AgeToken(tk.token, 1)]
    /\ UNCHANGED <<sv, DefaultRetryCount, cacheOn, pc, call, rq, result, trace>>

Next ==
    \/ \E k \in Keys, s \in ScopeLists, n \in RetryCounts : Token(k, s, n)
    \/ \E k \in Keys, s \in ScopeLists, n \in RetryCounts : RequestWithCustomRetry(k, s, n)
    \/ \E k \in Keys, s \in ScopeLists : Request(k, s)
    \/ OAuth2TokenRead
    \/ TokenRequestOK
    \/ TokenRequestFails
    \/ TokenSleep
    \/ OAuth2TokenWrite
    \/ ExecResponds
    \/ ExecFails
    \/ ExecReturnsNothing
    \/ RetrySleep
    \/ RetryInvalidate
    \/ Return
    \/ Tick

Spec == Init /\ [][Next]_vars

(***************************************************************************)
(* The retry-count rules on their own: a client with any DefaultRetryCount *)
(* is asked for the counts of any numRetry.                                *)
(***************************************************************************)
InitRetryCount ==
    /\ sv = NoSv
    /\ DefaultRetryCount \in RetryArgs
    /\ cacheOn = TRUE
    /\ cache = EmptyCache
    /\ pc = "count_args"
    /\ \E n \in RetryArgs : call = [NoCall EXCEPT !.op = "retryCount", !.numRetry = n]
    /\ rq = NoRq
    /\ tk = NoTk
    /\ result = NoResult
    /\ trace = <<>>

\* c.clientRequestRetryCount(numRetry)
ClientRequestRetryCount ==
    /\ pc = "count_args"
    /\ rq' = [rq EXCEPT !.clientRetry = clientRequestRetryCount(DefaultRetryCount, call.numRetry)]
    /\ pc' = "client_count"
    /\ UNCHANGED <<sv, DefaultRetryCount, cacheOn, cache, call, tk, result, trace>>

\* c.tokenRequestRetryCount(numRetry)
TokenRequestRetryCount ==
    /\ pc = "count_args"
    /\ tk' = [tk EXCEPT !.numRetry = tokenRequestRetryCount(DefaultRetryCount, call.numRetry)]
    /\ pc' = "token_count"
    /\ UNCHANGED <<sv, DefaultRetryCount, cacheOn, cache, call, rq, result, trace>>

NextRetryCount == ClientRequestRetryCount \/ TokenRequestRetryCount

SpecRetryCount == InitRetryCount /\ [][NextRetryCount]_vars

(***************************************************************************)
(* Token on its own, with the answers of the authorization server spelt    *)
(* out: what config.Token of the oauth2 client-credentials library makes   *)
(* of them is what the tests of the client observe.                        *)
(***************************************************************************)
StatusNotFound == 404
\* No answer at all: the connection fails.
NoAnswer == [status |-> 0, access_token |-> "", expires_in |-> 0]
Answer(status, a, e) == [status |-> status, access_token |-> a, expires_in |-> e]

ConnectionErr == [kind |-> "url", msg |-> "Post: unsupported protocol scheme"]
RetrieveErr == [kind |-> "oauth2", msg |-> "oauth2: cannot fetch token: 404 Not Found"]
MissingAccessTokenErr ==
    [kind |-> "oauth2", msg |-> "oauth2: server response missing access_token"]

\* A faulty variant: a 2xx answer is taken as a token whatever it holds.
ConfigTokenAcceptsEmpty(answer) ==
    IF answer.status = 0 THEN [token |-> NilToken, err |-> ConnectionErr]
    ELSE IF answer.status # StatusOK THEN [token |-> NilToken, err |-> RetrieveErr]
    ELSE [token |-> IssuedToken(answer.access_token, answer.expires_in), err |-> NilErr]

\* config.Token(ctx): the (token, err) it returns for an answer.
ConfigToken(answer) ==
    IF answer.status = 0 THEN [token |-> NilToken, err |-> ConnectionErr]
    ELSE IF answer.status # StatusOK THEN [token |-> NilToken, err |-> RetrieveErr]
    ELSE IF answer.access_token = "" THEN [token |-> NilToken, err |-> MissingAccessTokenErr]
    ELSE [token |-> IssuedToken(answer.access_token, answer.expires_in), err |-> NilErr]

\* One token request, answered by the authorization server (or not).
TokenRequestAnswered ==
    \E answer \in {NoAnswer, Answer(StatusNotFound, "", 0)}
                       \cup {Answer(StatusOK, a, e) :
                                 a \in {""} \cup AccessTokens, e \in ExpiresIn} :
        TokenRequest(ConfigToken(answer).token, ConfigToken(answer).err)

NextToken ==
    \/ \E k \in Keys, s \in ScopeLists, n \in RetryCounts : Token(k, s, n)
    \/ OAuth2TokenRead
    \/ TokenRequestAnswered
    \/ TokenSleep
    \/ OAuth2TokenWrite
    \/ Return
    \/ Tick

SpecToken == Init /\ [][NextToken]_vars

(***************************************************************************)
(* ExtractToken.  An Authorization header is a sequence of characters.     *)
(***************************************************************************)
RECURSIVE TrimLeft(_)
TrimLeft(str) == IF Len(str) > 0 /\ Head(str) = " " THEN TrimLeft(Tail(str)) ELSE str

RECURSIVE TrimRight(_)
TrimRight(str) ==
    IF Len(str) > 0 /\ str[Len(str)] = " "
    THEN TrimRight(SubSeq(str, 1, Len(str) - 1)) ELSE str

\* strings.Trim(s, " ")
Trim(str) == TrimRight(TrimLeft(str))

RECURSIVE Split(_)
\* strings.Split(s, " "): the fields between the single spaces
Split(str) ==
    IF \A i \in 1 .. Len(str) : str[i] # " " THEN <<str>>
    ELSE LET i == CHOOSE i \in 1 .. Len(str) :
                      str[i] = " " /\ \A j \in 1 .. i - 1 : str[j] # " "
         IN  <<SubSeq(str, 1, i - 1)>> \o Split(SubSeq(str, i + 1, Len(str)))

UpperCase == <<"A", "B", "C", "D", "E", "F", "G", "H", "I", "J", "K", "L", "M",
               "N", "O", "P", "Q", "R", "S", "T", "U", "V", "W", "X", "Y", "Z">>
LowerCase == <<"a", "b", "c", "d", "e", "f", "g", "h", "i", "j", "k", "l", "m",
               "n", "o", "p", "q", "r", "s", "t", "u", "v", "w", "x", "y", "z">>

\* strings.ToLower
ToLower(str) ==
    [i \in 1 .. Len(str) |->
        IF \E n \in 1 .. Len(UpperCase) : UpperCase[n] = str[i]
        THEN LowerCase[CHOOSE n \in 1 .. Len(UpperCase) : UpperCase[n] = str[i]]
        ELSE str[i]]

RECURSIVE String(_)
\* The characters as one string.
String(str) == IF Len(str) = 0 THEN "" ELSE Head(str) \o String(Tail(str))

\* A faulty variant: the scheme has to be written "Bearer", letter for letter.
ExtractTokenCaseSensitive(authHeader) ==
    LET values == Split(Trim(authHeader))
    IN  IF Len(values) > 1 /\ values[1] = <<"B", "e", "a", "r", "e", "r">>
        THEN String(values[2])
        ELSE ""

\* ExtractToken
ExtractToken(authHeader) ==
    LET values == Split(Trim(authHeader))
    IN  IF Len(values) > 1 /\ ToLower(values[1]) = <<"b", "e", "a", "r", "e", "r">>
        THEN String(values[2])
        ELSE ""

\* Authorization headers of incoming requests: none, "bad abc", "Bearer " and
\* "Bearer abc".
NoHeader == <<>>
BadHeader == <<"b", "a", "d", " ", "a", "b", "c">>
SchemeOnly == <<"B", "e", "a", "r", "e", "r", " ">>
BearerAbc == <<"B", "e", "a", "r", "e", "r", " ", "a", "b", "c">>
Headers == {NoHeader, BadHeader, SchemeOnly, BearerAbc}

(***************************************************************************)
(* The Service: CheckRequest, VerifyRequest, VerifyTokenWithCache,         *)
(* verifyToken.                                                            *)
(***************************************************************************)
StatusInternalServerError == 500
VerifyStatuses == {StatusOK, StatusUnauthorized, StatusNotFound, StatusInternalServerError}
Resources == {"", "resource"}

\* The "exp" of a verdict: none, not a string, not a time, or an instant
\* given in seconds from now.
ExpValues ==
    {JAbsent, JNumber, JString(""), JString("tomorrow")}
        \cup {JTime(t) : t \in -1 .. MaxExpTime + 1}
\* The verdicts of the verification endpoint: allowed with any "exp", or
\* not allowed (in so many words, with an "exp" besides, or by saying nothing).
Verdicts ==
    {Verdict(JBool(TRUE), x) : x \in ExpValues}
        \cup {Verdict(JBool(FALSE), JAbsent), Verdict(JBool(FALSE), JTime(1)),
              Verdict(JAbsent, JAbsent)}

\* The body of a verification response: nothing, the JSON null, or a JSON
\* object with its verdict.
Body(text, verdict) == [text |-> text, verdict |-> verdict]
NoBody == Body("", NilVerdict)
Bodies == {NoBody, Body("null", NilVerdict)} \cup {Body("{}", v) : v \in Verdicts}

JSONErr == [kind |-> "json", msg |-> "unexpected end of JSON input"]
DoErr == [kind |-> "url", msg |-> "Post: unsupported protocol scheme"]

\* json.Unmarshal(body, &result) into a map
Unmarshal(body) ==
    IF body.text = "{}" THEN [resp |-> body.verdict, err |-> NilErr]
    ELSE IF body.text = "null" THEN [resp |-> NilVerdict, err |-> NilErr]
    ELSE [resp |-> NilVerdict, err |-> JSONErr]

\* fmt.Sprintf("Error response from the authentication service: %d - %s", ...)
ErrorResponse(status, body) ==
    [kind |-> "AuthenticationError",
     msg |-> "Error response from the authentication service: "
                 \o ToString(status) \o " - " \o body.text]

\* A faulty variant: a 500 is an error like every other status.
verifyTokenResponseNo500(status, body) ==
    IF status # StatusOK THEN [resp |-> NilVerdict, err |-> ErrorResponse(status, body)]
    ELSE Unmarshal(body)

\* A faulty variant: every status that is not 200 is passed over in silence.
verifyTokenResponseQuiet(status, body) ==
    IF status # StatusOK THEN [resp |-> NilVerdict, err |-> NilErr]
    ELSE Unmarshal(body)

\* Service.verifyToken, from the response of the verification endpoint on.
verifyTokenResponse(status, body) ==
    IF status # StatusOK
    THEN IF status = StatusInternalServerError
         THEN [resp |-> NilVerdict, err |-> NilErr]
         ELSE [resp |-> NilVerdict, err |-> ErrorResponse(status, body)]
    ELSE Unmarshal(body)

\* time.Parse(iso8601, expTime)
ParseTime(expTime) ==
    IF expTime.str = iso8601 THEN [err |-> FALSE, unix |-> expTime.unix]
    ELSE [err |-> TRUE, unix |-> 0]

\* A faulty variant: a time in the running second counts as in the future.
expiryTimeNotBefore(D, expTime) ==
    IF expTime.str = "" THEN D
    ELSE LET t == ParseTime(expTime)
         IN  IF t.err THEN D
             ELSE IF t.unix >= 0 THEN t.unix ELSE D

\* Service.expiryTime, with s.DefaultExpTime = D
expiryTime(D, expTime) ==
    IF expTime.str = "" THEN D
    ELSE LET t == ParseTime(expTime)
         IN  IF t.err THEN D
             ELSE IF t.unix > 0 THEN t.unix ELSE D

\* A faulty variant: the "exp" of the verdict is not looked at.
VerdictExpDefault(D, resp) == D

\* VerifyTokenWithCache: exp, the time an allowed verdict is cached for.
VerdictExp(D, resp) ==
    IF resp.exp.type # "absent" /\ resp.exp.type = "string"
    THEN expiryTime(D, resp.exp)
    ELSE D

NoWrite == [write |-> FALSE, item |-> NilVerdict, exp |-> 0]

\* A faulty variant: a missing verdict without an error is cached as not allowed.
VerdictToCacheAlways(D, resp, err) ==
    IF err.kind # "nil" THEN NoWrite
    ELSE IF resp.allowed = JBool(TRUE)
    THEN [write |-> TRUE, item |-> resp, exp |-> VerdictExp(D, resp)]
    ELSE [write |-> TRUE, item |-> notAllowedResponse, exp |-> D]

\* VerifyTokenWithCache: what is written to the cache for the (resp, err)
\* of verifyToken, when there is a cache.
VerdictToCache(D, resp, err) ==
    IF err.kind # "nil" \/ resp.nil THEN NoWrite
    ELSE IF resp.allowed = JBool(TRUE)
    THEN [write |-> TRUE, item |-> resp, exp |-> VerdictExp(D, resp)]
    ELSE [write |-> TRUE, item |-> notAllowedResponse, exp |-> D]

\* A faulty variant: the defaults of the Service override what the caller gave.
buildOptionServiceFirst(opt) ==
    [TargetScopes |-> IF Len(opt.TargetScopes.elems) = 0 THEN Slice(<<>>)
                      ELSE opt.TargetScopes,
     Resource |-> IF sv.Resource # "" THEN sv.Resource ELSE opt.Resource,
     Action |-> opt.Action,
     Context |-> IF Len(sv.Context.entries) # 0 THEN sv.Context ELSE opt.Context,
     NumRetry |-> IntPtr(tokenRequestRetryCount(DefaultRetryCount,
                             IF opt.NumRetry.nil THEN DefaultRetryCount
                             ELSE opt.NumRetry.n))]

\* Service.buildOption
buildOption(opt) ==
    [TargetScopes |-> IF Len(opt.TargetScopes.elems) = 0 THEN Slice(<<>>)
                      ELSE opt.TargetScopes,
     Resource |-> IF opt.Resource = "" THEN sv.Resource ELSE opt.Resource,
     Action |-> opt.Action,
     Context |-> IF Len(opt.Context.entries) = 0 THEN sv.Context ELSE opt.Context,
     NumRetry |-> IntPtr(tokenRequestRetryCount(DefaultRetryCount,
                             IF opt.NumRetry.nil THEN DefaultRetryCount
                             ELSE opt.NumRetry.n))]

\* A faulty variant: an empty token is not a reason to return at once.
NothingToVerifyButResource(token, resource) == resource = ""

\* VerifyTokenWithCache: there is nothing to verify.
NothingToVerify(token, resource) == token = "" \/ resource = ""

\* A faulty variant: a cached value is never taken for a verdict.
IsVerdictNever(value) == FALSE

\* The dynamic type of a cached verdict.
IsVerdict(value) == "allowed" \in DOMAIN value

\* The cache key of the verdict of the running call.
VerdictKey == cacheKey(sv.token, sv.opt.TargetScopes.elems, sv.opt.Resource)

\* A Service right after NewService, with the fields a caller may set: Cache,
\* Resource, DefaultExpTime, and DefaultRetryCount, which is 0 as in the
\* tests of the Service.
InitService ==
    /\ \E r \in Resources :
           sv = [NoSv EXCEPT !.isService = TRUE, !.Resource = r,
                             !.Scopes = <<"scope">>, !.DefaultExpTime = MaxExpTime]
    /\ DefaultRetryCount = 0
    /\ cacheOn \in BOOLEAN
    /\ cache = EmptyCache
    /\ pc = "idle"
    /\ call = NoCall
    /\ rq = NoRq
    /\ tk = NoTk
    /\ result = NoResult
    /\ trace = <<>>

\* VerifyTokenWithCache(token, opt), entered as `op` for the request with
\* the Authorization header `header`: up to the cache lookup.
EnterVerify(op, header, token, opt) ==
    /\ pc = "idle"
    /\ sv.isService
    /\ sv' = [sv EXCEPT !.header = header, !.token = token, !.opt = buildOption(opt),
                        !.out = NoOut]
    /\ call' = [op |-> op, cacheKey |-> "service-access-token", scopes |-> sv.Scopes,
                numRetry |-> sv'.opt.NumRetry.n]
    /\ IF NothingToVerify(token, sv'.opt.Resource)
       THEN /\ result' = [NoResult EXCEPT !.rv = notAllowedResponse]
            /\ pc' = "done"
       ELSE /\ result' = NoResult
            /\ pc' = "v_read"
    /\ rq' = NoRq
    /\ tk' = NoTk
    /\ trace' = <<>>
    /\ UNCHANGED <<DefaultRetryCount, cacheOn, cache>>

\* Service.VerifyTokenWithCache called by the application.
VerifyTokenWithCache(token, opt) == EnterVerify("VerifyTokenWithCache", NoHeader, token, opt)

\* Service.VerifyRequest
VerifyRequest(header, opt) == EnterVerify("VerifyRequest", header, ExtractToken(header), opt)

\* Service.CheckRequestWithCustomRetry
CheckRequestWithCustomRetry(header, targetScopes, action, numRetry) ==
    VerifyRequest(header, [NoOpt EXCEPT !.TargetScopes = targetScopes, !.Action = action,
                                        !.NumRetry = IntPtr(numRetry)])

\* Service.CheckRequest
CheckRequest(header, targetScopes, action) ==
    CheckRequestWithCustomRetry(header, targetScopes, action, DefaultRetryCount)

\* VerifyTokenWithCache, the cache lookup: a hit returns the cached verdict,
\* a miss goes on to verifyToken and its call of Token.
VerdictRead ==
    /\ pc = "v_read"
    /\ LET value == CacheRead(cache, VerdictKey)
       IN  IF cacheOn /\ value.found /\ IsVerdict(value.Object)
           THEN /\ trace' = Append(trace, Event("vread", 0, TRUE))
                /\ result' = ServiceReturns([rv |-> value.Object, err |-> NilErr])
                /\ pc' = "done"
                /\ tk' = tk
           ELSE /\ trace' = IF cacheOn THEN Append(trace, Event("vread", 0, FALSE)) ELSE trace
                /\ IF sv.token = "" \/ sv.opt.Resource = ""
                   THEN /\ result' = ServiceReturns(VerifyTokenWithCacheReturns(NilVerdict, NilErr))
                        /\ pc' = "done"
                        /\ tk' = tk
                   ELSE /\ tk' = EnterToken(sv.opt.NumRetry.n, "verify")
                        /\ pc' = "tok_read"
                        /\ result' = result
    /\ UNCHANGED <<sv, DefaultRetryCount, cacheOn, cache, call, rq>>

\* verifyToken: the verification endpoint has answered; VerifyTokenWithCache
\* caches the verdict (the cache may fail to take it) and returns.
VerifyResponds(status, body, written) ==
    /\ pc = "verify"
    /\ LET out == verifyTokenResponse(status, body)
           w == VerdictToCache(sv.DefaultExpTime, out.resp, out.err)
       IN  /\ sv' = [sv EXCEPT !.out = out]
           /\ result' = ServiceReturns(VerifyTokenWithCacheReturns(out.resp, out.err))
           /\ IF cacheOn /\ w.write
              THEN /\ cache' = IF written THEN CacheWrite(cache, VerdictKey, w.item, w.exp)
                               ELSE cache
                   /\ trace' = trace \o <<Event("verify", status, TRUE),
                                         Event("vwrite", w.exp, written)>>
              ELSE /\ written
                   /\ cache' = cache
                   /\ trace' = Append(trace, Event("verify", status, TRUE))
    /\ pc' = "done"
    /\ UNCHANGED <<DefaultRetryCount, cacheOn, call, rq, tk>>

\* The verification endpoint answers 200 with some body ...
VerifyAnswers == \E body \in Bodies, written \in BOOLEAN : VerifyResponds(StatusOK, body, written)

\* ... or refuses with another status ...
VerifyRefuses == \E status \in VerifyStatuses \ {StatusOK} : VerifyResponds(status, NoBody, TRUE)

\* ... or cannot be reached: client.Do returns an error.
VerifyFails ==
    /\ pc = "verify"
    /\ sv' = [sv EXCEPT !.out = [resp |-> NilVerdict, err |-> DoErr]]
    /\ result' = ServiceReturns(VerifyTokenWithCacheReturns(NilVerdict, DoErr))
    /\ trace' = Append(trace, Event("verify", 0, FALSE))
    /\ pc' = "done"
    /\ UNCHANGED <<DefaultRetryCount, cacheOn, cache, call, rq, tk>>

\* The call of the service has returned; the caller goes on.
ServiceReturn ==
    /\ pc = "done"
    /\ pc' = "idle"
    /\ sv' = [sv EXCEPT
                 !.header = NoHeader, !.token = "", !.opt = NoOpt, !.out = NoOut,
                 !.last = IF Len(trace) > 0 /\ trace[Len(trace)].ev = "verify"
                             /\ trace[Len(trace)].n = StatusInternalServerError
                          THEN [status |-> StatusInternalServerError, token |-> sv.token,
                                scopes |-> sv.opt.TargetScopes.elems,
                                resource |-> sv.opt.Resource]
                          ELSE NoLast]
    /\ call' = NoCall
    /\ rq' = NoRq
    /\ tk' = NoTk
    /\ result' = NoResult
    /\ trace' = <<>>
    /\ UNCHANGED <<DefaultRetryCount, cacheOn, cache>>

NextService ==
    \/ \E h \in Headers, s \in ScopeLists : CheckRequest(h, Slice(s), "")
    \/ \E h \in Headers, s \in ScopeLists, n \in {-1, 1} :
           CheckRequestWithCustomRetry(h, Slice(s), "", n)
    \/ \E t \in {"", "abc"}, s \in ScopeLists, r \in Resources, n \in {NilInt, IntPtr(1)} :
           VerifyTokenWithCache(t, [NoOpt EXCEPT !.TargetScopes = Slice(s), !.Resource = r,
                                                 !.NumRetry = n])
    \/ VerdictRead
    \/ OAuth2TokenRead
    \/ TokenRequestOK
    \/ TokenRequestFails
    \/ TokenSleep
    \/ OAuth2TokenWrite
    \/ VerifyAnswers
    \/ VerifyRefuses
    \/ VerifyFails
    \/ ServiceReturn
    \/ Tick

SpecService == InitService /\ [][NextService]_vars

(***************************************************************************)
(* Reading the trace of the running call.                                  *)
(***************************************************************************)
IsExec(e) == e.ev = "exec"
IsSleep(e) == e.ev = "sleep"
IsDelete(e) == e.ev = "delete"
IsFetch(e) == e.ev = "fetch"
IsTokSleep(e) == e.ev = "toksleep"

Execs == SelectSeq(trace, IsExec)
Sleeps == SelectSeq(trace, IsSleep)
Deletes == SelectSeq(trace, IsDelete)
Fetches == SelectSeq(trace, IsFetch)

\* Position in the trace of the first invocation of exec (0: not yet).
FirstExecAt ==
    IF \E i \in 1 .. Len(trace) : IsExec(trace[i])
    THEN CHOOSE i \in 1 .. Len(trace) :
             IsExec(trace[i]) /\ \A j \in 1 .. i - 1 : ~IsExec(trace[j])
    ELSE 0

InRequest == call.op = "Request"
\* Inside a 401 retry iteration: from its sleep up to its invocation of exec.
InRetryIteration ==
    \/ pc \in {"sleep", "delete"}
    \/ tk.ret = "retry" /\ pc \in {"tok_read", "tok_fetch", "tok_sleep", "tok_write", "exec"}
Returned == pc = "done"
Last(seq) == seq[Len(seq)]
Is401(e) == e.ok /\ e.n = StatusUnauthorized

RECURSIVE SumN(_)
SumN(seq) == IF Len(seq) = 0 THEN 0 ELSE seq[1].n + SumN(Tail(seq))

(***************************************************************************)
(* C1.  In RequestWithCustomRetry with resolved client-request retry count  *)
(* R >= 1, exec is invoked at most 1 + R times; every invocation but the   *)
(* last returned no error and status 401; and the call goes on to another  *)
(* retry iteration only after a 401 with fewer than R retries made, so it  *)
(* stops at the first non-401 response or once R retries have been made.   *)
(***************************************************************************)
C1_RetryBound ==
    InRequest =>
        /\ rq.clientRetry >= 1
        /\ Len(Execs) <= 1 + rq.clientRetry
        /\ \A i \in 1 .. Len(Execs) - 1 : Is401(Execs[i])
        /\ InRetryIteration =>
               /\ Len(Execs) >= 1
               /\ Len(Execs) <= rq.clientRetry
               /\ Is401(Last(Execs))
        /\ (Returned /\ Len(Execs) >= 1 /\ Is401(Last(Execs)) /\ result.err = NilErr) =>
               Len(Execs) = 1 + rq.clientRetry

\* All R retries are made: exec has run 1 + R times with R the largest count.
C1_Witness ==
    /\ InRequest /\ Returned
    /\ rq.clientRetry = MaxRetry
    /\ Len(Execs) = 1 + MaxRetry

(***************************************************************************)
(* C2.  When the first response of exec has a status other than 401,       *)
(* Request has returned that response: exec ran exactly once and nothing   *)
(* (no sleep, no cache invalidation, no token fetch) followed it.          *)
(***************************************************************************)
C2_NoRetryOnOtherStatus ==
    (InRequest /\ Len(Execs) >= 1 /\ Execs[1].n \in Statuses \ {StatusUnauthorized}) =>
        /\ Returned
        /\ Len(Execs) = 1
        /\ IsExec(Last(trace))
        /\ Len(Sleeps) = 0
        /\ Len(Deletes) = 0
        /\ result.resp = Response(Execs[1].n)

\* A 502 as first response with the largest retry count.
C2_Witness ==
    /\ InRequest /\ Returned
    /\ rq.clientRetry = MaxRetry
    /\ Len(Execs) = 1
    /\ Execs[1].ok /\ Execs[1].n = StatusBadGateway

(***************************************************************************)
(* C3.  If exec returns an error, on the first invocation or on a retry    *)
(* invocation, Request has returned with that same error (and exec's       *)
(* response): nothing follows the failed invocation.                       *)
(***************************************************************************)
C3_ExecErrorReturned ==
    (InRequest /\ \E i \in 1 .. Len(Execs) : ~Execs[i].ok) =>
        /\ Returned
        /\ ~Last(Execs).ok
        /\ IsExec(Last(trace))
        /\ result.err = ExecErr
        /\ result.resp.StatusCode = Last(Execs).n

\* exec fails on a retry invocation, with a 401 response in hand.
C3_Witness ==
    /\ InRequest /\ Returned
    /\ Len(Execs) = 2
    /\ ~Execs[2].ok /\ Execs[2].n = StatusUnauthorized

(***************************************************************************)
(* C4.  The retry with index i (from 0) is preceded by a backoff sleep of  *)
(* exactly 2^i seconds, so k retries have slept 2^k - 1 seconds in total;  *)
(* with the service answering 401, 401, 200 and a retry count of 2 the     *)
(* sleeps are 1s then 2s and the 200 response is returned.                 *)
(***************************************************************************)
C4_Backoff ==
    InRequest =>
        /\ \A i \in 1 .. Len(Sleeps) : Sleeps[i].n = 2 ^ (i - 1)
        /\ SumN(Sleeps) = 2 ^ Len(Sleeps) - 1
        /\ Len(Execs) >= 2 => Len(Sleeps) >= Len(Execs) - 1
        /\ (Returned /\ rq.clientRetry = 2 /\ Len(Execs) = 3
            /\ Is401(Execs[1]) /\ Is401(Execs[2])
            /\ Execs[3].ok /\ Execs[3].n = StatusOK) =>
               /\ Sleeps = <<Event("sleep", 1, TRUE), Event("sleep", 2, TRUE)>>
               /\ result.resp = Response(StatusOK)
               /\ result.err = NilErr

\* 401, 401, 200 with a retry count of 2.
C4_Witness ==
    /\ InRequest /\ Returned
    /\ rq.clientRetry = 2
    /\ Len(Execs) = 3
    /\ Execs[3].ok /\ Execs[3].n = StatusOK
    /\ Len(Sleeps) = 2

(***************************************************************************)
(* C5.  With a cache configured, every retry iteration invalidates the     *)
(* cached token of (cacheKey, scopes) exactly once, right after its        *)
(* backoff sleep and before the token is looked up and fetched again and   *)
(* exec re-invoked: the entry is absent until the re-fetch, and the        *)
(* number of invalidations is the number of retry iterations performed.    *)
(***************************************************************************)
C5_InvalidateOncePerRetry ==
    (InRequest /\ cacheOn) =>
        /\ \A i \in 1 .. Len(trace) - 1 : IsSleep(trace[i]) => IsDelete(trace[i + 1])
        /\ \A i \in 1 .. Len(trace) : IsDelete(trace[i]) => (i > 1 /\ IsSleep(trace[i - 1]))
        /\ \A i \in 1 .. Len(trace) - 1 :
               IsDelete(trace[i]) => (trace[i + 1].ev = "read" /\ ~trace[i + 1].ok)
        /\ Len(Deletes) = (IF pc = "delete" THEN Len(Sleeps) - 1 ELSE Len(Sleeps))
        /\ (tk.ret = "retry" /\ pc \in {"tok_read", "tok_fetch", "tok_sleep"}) =>
               cacheKey(call.cacheKey, call.scopes, "") \notin DOMAIN cache
        /\ (Returned /\ Len(Execs) >= 1) =>
               /\ Len(Deletes) >= Len(Execs) - 1
               /\ Len(Deletes) <= Len(Execs)

\* Two retry iterations, each dropping a token that had been cached.
C5_Witness ==
    /\ InRequest /\ cacheOn /\ Returned
    /\ call.cacheKey # ""
    /\ Len(Deletes) = 2
    /\ Len(Execs) = 3
    /\ \E i \in 1 .. Len(trace) : trace[i].ev = "write" /\ i < FirstExecAt
    /\ \E i \in 1 .. Len(trace) : trace[i].ev = "write" /\ i > FirstExecAt

TokenRetries ==
    IF call.numRetry >= 0 THEN call.numRetry
    ELSE IF DefaultRetryCount < 0 THEN 0 ELSE DefaultRetryCount

\* Token requests made before position `upto` of the trace and after `from`.
FetchesBetween(from, upto) ==
    Cardinality({i \in 1 .. Len(trace) : IsFetch(trace[i]) /\ from < i /\ i < upto})

SleepAt == {i \in 1 .. Len(trace) : IsSleep(trace[i])}

C7_TokenRequestBound ==
    InRequest =>
        /\ FetchesBetween(0, IF FirstExecAt = 0 THEN Len(trace) + 1 ELSE FirstExecAt)
               <= 1 + TokenRetries
        /\ \A i \in SleepAt :
               /\ \A j \in i .. Len(trace) : ~IsTokSleep(trace[j])
               /\ \A k \in SleepAt \cup {Len(trace) + 1} :
                      (k > i /\ \A m \in SleepAt : ~(i < m /\ m < k)) =>
                          FetchesBetween(i, k) <= 1
        /\ Len(Fetches) <= 1 + TokenRetries + rq.clientRetry

\* The bound is met: T failures before the first token, and a fetch in
\* each of the R retry iterations.
C7_Witness ==
    /\ InRequest /\ Returned
    /\ TokenRetries = MaxRetry
    /\ rq.clientRetry = MaxRetry
    /\ Len(Fetches) = 1 + MaxRetry + MaxRetry

(***************************************************************************)
(* C8.  clientRequestRetryCount(requested) with default D.  As stated: it  *)
(* returns requested when requested >= 1; 1 when requested == 0 or D < 1;  *)
(* D when requested < 0 and D >= 1; and the result is always >= 1.         *)
(***************************************************************************)
C8_AsStated ==
    pc = "client_count" =>
        /\ call.numRetry >= 1 => rq.clientRetry = call.numRetry
        /\ (call.numRetry = 0 \/ DefaultRetryCount < 1) => rq.clientRetry = 1
        /\ (call.numRetry < 0 /\ DefaultRetryCount >= 1) => rq.clientRetry = DefaultRetryCount
        /\ rq.clientRetry >= 1

(***************************************************************************)
(* C8, amended.  It returns requested when requested >= 1; 1 when          *)
(* requested == 0, or when requested < 0 and D < 1; D when requested < 0   *)
(* and D >= 1; and the result is always >= 1.                              *)
(***************************************************************************)
C8_ClientRetryCount ==
    pc = "client_count" =>
        /\ call.numRetry >= 1 => rq.clientRetry = call.numRetry
        /\ (call.numRetry = 0 \/ (call.numRetry < 0 /\ DefaultRetryCount < 1)) =>
               rq.clientRetry = 1
        /\ (call.numRetry < 0 /\ DefaultRetryCount >= 1) => rq.clientRetry = DefaultRetryCount
        /\ rq.clientRetry >= 1

\* A requested count above 1 with a default below 1: the request wins.
C8_Witness ==
    /\ pc = "client_count"
    /\ call.numRetry = 2
    /\ DefaultRetryCount = 0
    /\ rq.clientRetry = 2

(***************************************************************************)
(* C9.  tokenRequestRetryCount(requested) with default D returns requested *)
(* when requested >= 0; 0 when requested < 0 and D < 0; D when             *)
(* requested < 0 and D >= 0.  The result is always >= 0 and an explicit 0  *)
(* stays 0.                                                                *)
(***************************************************************************)
C9_TokenRetryCount ==
    pc = "token_count" =>
        /\ call.numRetry >= 0 => tk.numRetry = call.numRetry
        /\ (call.numRetry < 0 /\ DefaultRetryCount < 0) => tk.numRetry = 0
        /\ (call.numRetry < 0 /\ DefaultRetryCount >= 0) => tk.numRetry = DefaultRetryCount
        /\ tk.numRetry >= 0
        /\ call.numRetry = 0 => tk.numRetry = 0

\* An explicit 0 with a positive default.
C9_Witness ==
    /\ pc = "token_count"
    /\ call.numRetry = 0
    /\ DefaultRetryCount > 0
    /\ tk.numRetry = 0

(***************************************************************************)
(* C10.  With a cache configured and a non-empty logical key: a call that  *)
(* caches a token returns the access token it cached, and every call of    *)
(* Token for the same (key, scopes) made while the entry is in the cache   *)
(* returns the cached access token with a nil error, makes no request to   *)
(* the authorization server and leaves the cache as it is.                 *)
(***************************************************************************)
CallKey == cacheKey(call.cacheKey, call.scopes, "")

\* The access token that the Token call which just returned gave its caller.
GivenToken == IF tk.ret = "top" THEN result.token ELSE rq.token

C10_CachedTokenServed ==
    [][ /\ (pc = "tok_read" /\ cacheOn /\ call.cacheKey # "" /\ CallKey \in DOMAIN cache) =>
            /\ pc' = (IF tk.ret = "top" THEN "done" ELSE "exec")
            /\ GivenToken' = cache[CallKey].Object.AccessToken
            /\ result'.err = NilErr
            /\ Fetches' = Fetches
            /\ cache' = cache
        /\ (pc = "tok_write" /\ pc' # "tok_write" /\ CallKey \in DOMAIN cache') =>
            /\ GivenToken' = cache'[CallKey].Object.AccessToken
            /\ result'.err = NilErr
      ]_vars

\* A Token call served from the cache alone: a lookup that hits, nothing else.
C10_Witness ==
    /\ call.op = "Token" /\ Returned
    /\ Len(trace) = 1
    /\ trace[1].ev = "read" /\ trace[1].ok
    /\ result.token = "abc"
    /\ result.err = NilErr

(***************************************************************************)
(* C11.  OAuth2TokenWithoutCaching with resolved token-fetch retry count n *)
(* makes at most 1 + n token requests and stops at the first successful    *)
(* one; retry i (from 0) comes right after a sleep of exactly 2^i seconds  *)
(* and there is no other sleep; with n = 0 it makes exactly one request    *)
(* and never sleeps.                                                       *)
(***************************************************************************)
TokSleeps == SelectSeq(trace, IsTokSleep)
InToken == call.op = "Token"

C11_TokenFetchRetries ==
    InToken =>
        /\ Len(Fetches) <= 1 + TokenRetries
        /\ \A i \in 1 .. Len(Fetches) - 1 : ~Fetches[i].ok
        /\ \A i \in 1 .. Len(TokSleeps) : TokSleeps[i].n = 2 ^ (i - 1)
        /\ \A i \in 1 .. Len(trace) :
               IsTokSleep(trace[i]) => (i > 1 /\ IsFetch(trace[i - 1]) /\ ~trace[i - 1].ok)
        /\ \A i \in 2 .. Len(trace) :
               (IsFetch(trace[i]) /\ \E j \in 1 .. i - 1 : IsFetch(trace[j])) =>
                   IsTokSleep(trace[i - 1])
        /\ Len(TokSleeps) = (IF pc = "tok_fetch" THEN Len(Fetches) ELSE Len(Fetches) - 1)
               \/ Len(Fetches) = 0
        /\ (Returned /\ Len(Fetches) >= 1 /\ ~Last(Fetches).ok) =>
               Len(Fetches) = 1 + TokenRetries
        /\ (TokenRetries = 0) =>
               /\ Len(TokSleeps) = 0
               /\ (Returned /\ ~trace[1].ok) => Len(Fetches) = 1

\* The token comes with the last of the retries, after sleeps of 1 s and 2 s.
C11_Witness ==
    /\ InToken /\ Returned
    /\ TokenRetries = 2
    /\ Len(Fetches) = 3
    /\ Last(Fetches).ok
    /\ TokSleeps = <<Event("toksleep", 1, TRUE), Event("toksleep", 2, TRUE)>>

(***************************************************************************)
(* C12.  Every non-nil error that Token, OAuth2Token and                   *)
(* OAuth2TokenWithoutCaching return (after a connection failure, a non-2xx *)
(* answer or a malformed one) is an AuthenticationError, and the token     *)
(* returned with it is nil / the empty string.                             *)
(***************************************************************************)
C12_TokenErrors ==
    (InToken /\ Returned) =>
        /\ result.err # NilErr =>
               /\ result.err.kind = "AuthenticationError"
               /\ result.token = ""
               /\ tk.token.nil
        /\ (Len(Fetches) >= 1 /\ ~Last(Fetches).ok) =>
               result.err \in {AuthenticationError(ConnectionErr),
                               AuthenticationError(RetrieveErr),
                               AuthenticationError(MissingAccessTokenErr)}

\* A 404 of the authorization server, after the retries.
C12_Witness ==
    /\ InToken /\ Returned
    /\ result.err = AuthenticationError(RetrieveErr)
    /\ Len(Fetches) = 1 + MaxRetry

C14_TokenCachedWithTTL ==
    [][ /\ (pc = "tok_write" /\ pc' # "tok_write" /\ cacheOn /\ call.cacheKey # "") =>
            /\ (~tk.token.ExpiryIsZero /\ tk.token.Expiry >= 0) =>
                   /\ Last(trace') = Event("write", tk.token.Expiry, TRUE)
                   /\ Len(trace') = Len(trace) + 1
                   /\ CallKey \in DOMAIN cache'
                   /\ cache'[CallKey].Object = tk.token
                   /\ cache'[CallKey].Expiration =
                          (IF tk.token.Expiry = 0 THEN NoExpiration ELSE tk.token.Expiry)
            /\ tk.token.ExpiryIsZero =>
                   /\ Last(trace') = Event("write", 0, TRUE)
                   /\ CallKey \in DOMAIN cache'
                   /\ cache'[CallKey] = [Object |-> tk.token, Expiration |-> NoExpiration]
            /\ (~tk.token.ExpiryIsZero /\ tk.token.Expiry < 0) =>
                   /\ trace' = trace
                   /\ cache' = cache
                   /\ CallKey \notin DOMAIN cache'
        /\ (pc = "tok_read" /\ CallKey \notin DOMAIN cache) =>
            /\ pc' = "tok_fetch"
            /\ Fetches' = Fetches
      ]_vars

\* A token with a second left to live has been cached for that second.
C14_Witness ==
    /\ InToken /\ Returned
    /\ Last(trace) = Event("write", 1, TRUE)
    /\ cache[CallKey].Expiration = 1
    /\ cache[CallKey].Object.Expiry = 1

(***************************************************************************)
(* Reading the trace of a call of the Service.                             *)
(***************************************************************************)
IsVerify(e) == e.ev = "verify"
IsVerdictWrite(e) == e.ev = "vwrite"
Verifies == SelectSeq(trace, IsVerify)
VerdictWrites == SelectSeq(trace, IsVerdictWrite)
InService == call.op \in {"VerifyRequest", "VerifyTokenWithCache"}
\* The verification endpoint has answered the running call with `status`.
Answered(status) == Len(Verifies) = 1 /\ Verifies[1].ok /\ Verifies[1].n = status

(***************************************************************************)
(* C15.  VerifyRequest / CheckRequest on a request whose Authorization     *)
(* header is missing or malformed (empty bearer token) returns the         *)
(* not-allowed sentinel with a nil error at once: no request to the token  *)
(* endpoint or the verification endpoint, no cache read and no cache       *)
(* write; the same holds for VerifyTokenWithCache when the resolved        *)
(* resource is empty.                                                      *)
(***************************************************************************)
C15_NothingToVerify ==
    [][ (pc = "idle" /\ pc' # "idle" /\ sv.isService
         /\ \/ call'.op = "VerifyRequest" /\ sv'.header \in {NoHeader, BadHeader, SchemeOnly}
            \/ sv'.token = ""
            \/ sv'.opt.Resource = "") =>
            /\ pc' = "done"
            /\ result'.rv = notAllowedResponse
            /\ result'.err = NilErr
            /\ trace' = <<>>
            /\ cache' = cache
      ]_vars

\* A request with a malformed header has been turned down while the cache
\* holds a verdict and the service's own token.
C15_Witness ==
    /\ call.op = "VerifyRequest" /\ Returned
    /\ sv.header = BadHeader
    /\ sv.opt.Resource # ""
    /\ result.rv = notAllowedResponse
    /\ Cardinality(DOMAIN cache) = 2

(***************************************************************************)
(* C16.  As stated: when the verification endpoint answers with status     *)
(* 500, VerifyTokenWithCache returns (nil, nil), a nil verdict and a nil   *)
(* error.                                                                  *)
(***************************************************************************)
C16_AsStated ==
    (call.op = "VerifyTokenWithCache" /\ Returned /\ Answered(StatusInternalServerError)) =>
        /\ result.rv = NilVerdict
        /\ result.err = NilErr

(***************************************************************************)
(* C16, amended.  When the verification endpoint answers with status 500,  *)
(* verifyToken returns (nil, nil), and VerifyTokenWithCache returns the    *)
(* not-allowed sentinel with a nil error.                                  *)
(***************************************************************************)
C16_NotAllowedOn500 ==
    (call.op = "VerifyTokenWithCache" /\ Returned /\ Answered(StatusInternalServerError)) =>
        /\ sv.out = [resp |-> NilVerdict, err |-> NilErr]
        /\ result.rv = notAllowedResponse
        /\ result.err = NilErr

\* A 500 to a verification made with a token fetched for it.
C16_Witness ==
    /\ call.op = "VerifyTokenWithCache" /\ Returned
    /\ Answered(StatusInternalServerError)
    /\ Len(Fetches) = 1
    /\ result.rv = notAllowedResponse

(***************************************************************************)
(* C17.  A 500 from the verification endpoint never poisons the cache: no  *)
(* verdict entry is written for (token, scopes, resource) and no error is  *)
(* raised; the next call, when it is for the same token, scopes and        *)
(* resource, is not answered from the cache, and contacts the verification *)
(* endpoint again as soon as it has, like the first, the service's access  *)
(* token.                                                                  *)
(***************************************************************************)
\* The running call has the arguments of the one before, which ended on a 500.
SameAsLast500 ==
    /\ InService
    /\ sv.last.status = StatusInternalServerError
    /\ sv.last.token = sv.token
    /\ sv.last.scopes = sv.opt.TargetScopes.elems
    /\ sv.last.resource = sv.opt.Resource

C17_NoPoisoningOn500 ==
    /\ (InService /\ Returned /\ Answered(StatusInternalServerError)) =>
           /\ result.err = NilErr
           /\ Len(VerdictWrites) = 0
           /\ cacheOn => VerdictKey \notin DOMAIN cache
    /\ SameAsLast500 =>
           /\ \A i \in 1 .. Len(trace) : ~(trace[i].ev = "vread" /\ trace[i].ok)
           /\ pc = "verify" => Len(Verifies) = 0
           /\ Returned =>
                  \/ Len(Verifies) = 1
                  \/ Len(Fetches) >= 1 /\ ~Last(Fetches).ok /\ result.err # NilErr

\* The same verification made again after a 500, with a cache: the endpoint
\* is asked again, and this time allows.
C17_Witness ==
    /\ SameAsLast500 /\ Returned
    /\ cacheOn
    /\ Answered(StatusOK)
    /\ trace[1] = Event("vread", 0, FALSE)
    /\ trace[2] = Event("read", 0, TRUE)
    /\ result.rv.allowed = JBool(TRUE)

TTLOf(exp) ==
    IF exp.type = "string" /\ exp.str = iso8601 /\ exp.unix > 0
    THEN exp.unix
    ELSE sv.DefaultExpTime

C19_VerdictCached ==
    (InService /\ Returned /\ cacheOn /\ Answered(StatusOK)
     /\ ~sv.out.resp.nil /\ sv.out.err = NilErr) =>
        /\ result.rv = sv.out.resp
        /\ result.err = NilErr
        /\ Len(VerdictWrites) = 1
        /\ IsVerdictWrite(Last(trace))
        /\ IF sv.out.resp.allowed = JBool(TRUE)
           THEN /\ Last(trace).n = TTLOf(sv.out.resp.exp)
                /\ Last(trace).ok =>
                       cache[VerdictKey] =
                           [Object |-> sv.out.resp, Expiration |-> TTLOf(sv.out.resp.exp)]
           ELSE /\ Last(trace).n = sv.DefaultExpTime
                /\ Last(trace).ok =>
                       cache[VerdictKey] =
                           [Object |-> notAllowedResponse, Expiration |-> sv.DefaultExpTime]
        /\ ~Last(trace).ok => VerdictKey \notin DOMAIN cache

\* An allowed verdict that expires in a second has been cached for a second.
C19_Witness ==
    /\ InService /\ Returned /\ cacheOn
    /\ Answered(StatusOK)
    /\ result.rv = Verdict(JBool(TRUE), JTime(1))
    /\ Last(trace) = Event("vwrite", 1, TRUE)
    /\ cache[VerdictKey].Expiration = 1

(***************************************************************************)
(* C20.  When a verdict for cacheKey(token, scopes, resource) is in the    *)
(* cache, VerifyTokenWithCache returns that cached verdict verbatim with a *)
(* nil error and makes no network call: neither a service-token fetch nor  *)
(* a verification request.                                                 *)
(***************************************************************************)
C20_CachedVerdictServed ==
    [][ (pc = "v_read" /\ cacheOn /\ VerdictKey \in DOMAIN cache
         /\ "allowed" \in DOMAIN cache[VerdictKey].Object) =>
            /\ pc' = "done"
            /\ result'.rv = cache[VerdictKey].Object
            /\ result'.err = NilErr
            /\ trace' = <<Event("vread", 0, TRUE)>>
            /\ cache' = cache
      ]_vars

\* An allowed verdict served from the cache alone.
C20_Witness ==
    /\ InService /\ Returned
    /\ trace = <<Event("vread", 0, TRUE)>>
    /\ result.rv.allowed = JBool(TRUE)
    /\ result.rv.exp = JTime(1)
    /\ result.err = NilErr

(***************************************************************************)
(* C21.  Every non-nil error returned by VerifyRequest, CheckRequest and   *)
(* CheckRequestWithCustomRetry is an AuthenticationError, whatever went    *)
(* wrong inside (the fetch of the service token, the transport, a status   *)
(* other than 200 from the verification endpoint, a body that cannot be    *)
(* parsed), and the verdict returned with it has allowed = false.          *)
(***************************************************************************)
\* What VerifyRequest makes of the error `err` of VerifyTokenWithCache.
Wrapped(err) ==
    [kind |-> "AuthenticationError",
     msg |-> "Service failed to verify the token: " \o err.msg]

TicksPerSecond == 2
MaxClock == 6

\* A time string in the layout, for the instant t.
TimeString(t) == [str |-> iso8601, at |-> t]
\* The strings given to expiryTime: empty, not a time ("a"), or a time in
\* the layout.
ExpTimes ==
    {[str |-> "", at |-> 0], [str |-> "a", at |-> 0]}
        \cup {TimeString(t) : t \in 0 .. MaxClock}

\* Time.Unix(): the whole seconds of a time, the fraction of a second dropped.
Unix(t) == t \div TicksPerSecond

\* The JSON string `expTime` read when the clock shows `now`: what
\* t.Unix() - time.Now().Unix() comes to for it.
ExpAt(expTime, now) ==
    [type |-> "string", bool |-> FALSE, str |-> expTime.str,
     unix |-> Unix(expTime.at) - Unix(now)]

InitExpiryTime ==
    /\ \E D \in {MaxExpTime, MaxExpTime + MaxClock} :
           sv = [NoSv EXCEPT !.isService = TRUE, !.DefaultExpTime = D]
    /\ DefaultRetryCount = 0
    /\ cacheOn = FALSE
    /\ cache = EmptyCache
    /\ pc = "exp_args"
    /\ \E x \in ExpTimes, now \in 0 .. MaxClock : call = [op |-> "expiryTime", expTime |-> x, now |-> now]
    /\ rq = NoRq
    /\ tk = NoTk
    /\ result = [exp |-> 0]
    /\ trace = <<>>

\* s.expiryTime(expTime)
ExpiryTime ==
    /\ pc = "exp_args"
    /\ result' = [exp |-> expiryTime(sv.DefaultExpTime, ExpAt(call.expTime, call.now))]
    /\ pc' = "done"
    /\ UNCHANGED <<sv, DefaultRetryCount, cacheOn, cache, call, rq, tk, trace>>

SpecExpiryTime == InitExpiryTime /\ [][ExpiryTime]_vars

(***************************************************************************)
(* C22.  expiryTime(s) returns exactly DefaultExpTime when s is empty,     *)
(* unparsable, or denotes a time whose difference from now in whole clock  *)
(* seconds is <= 0, and otherwise returns that positive difference.  For a *)
(* time a whole number d >= 1 of seconds in the future the result is d;    *)
(* for any time in the future it is either DefaultExpTime (the time lies   *)
(* in the running clock second) or less than a second more than the time   *)
(* that is left.                                                           *)
(***************************************************************************)
\* The whole clock seconds from the clock of the call to the time given.
WholeSeconds == (call.expTime.at \div TicksPerSecond) - (call.now \div TicksPerSecond)
\* The ticks from the clock of the call to the time given.
TicksLeft == call.expTime.at - call.now
ExpiryTimeReturned == call.op = "expiryTime" /\ Returned
IsTime == call.expTime.str = iso8601

\* The claim as it is stated: d seconds in the future, the result is <= d.
C22_AsStated ==
    (ExpiryTimeReturned /\ IsTime /\ TicksLeft > 0) =>
        result.exp * TicksPerSecond <= TicksLeft

C22_ExpiryTime ==
    ExpiryTimeReturned =>
        /\ ~IsTime => result.exp = sv.DefaultExpTime
        /\ (IsTime /\ WholeSeconds <= 0) => result.exp = sv.DefaultExpTime
        /\ (IsTime /\ WholeSeconds > 0) => result.exp = WholeSeconds /\ result.exp > 0
        /\ \A d \in 1 .. MaxClock :
               (IsTime /\ TicksLeft = d * TicksPerSecond) => result.exp = d
        /\ (IsTime /\ TicksLeft > 0) =>
               \/ result.exp = sv.DefaultExpTime /\ WholeSeconds = 0
               \/ result.exp * TicksPerSecond < TicksLeft + TicksPerSecond

\* A time half a second ahead, in the next clock second: a whole second is
\* returned.
C22_Witness ==
    /\ ExpiryTimeReturned
    /\ call.expTime = TimeString(2 * TicksPerSecond)
    /\ call.now = 2 * TicksPerSecond - 1
    /\ result.exp = 1

(***************************************************************************)
(* cacheKey on its own: a client or a service is asked for the cache key   *)
(* of a key, a slice of scopes (nil, empty or not) and a resource.         *)
(***************************************************************************)
\* The arguments of cacheKey.
KeyArgs ==
    [key : {"", "hello", "hello/a"},
     scopes : {NilSlice, Slice(<<>>), Slice(<<"a">>), Slice(<<"a", "b">>),
               Slice(<<"a_b">>), Slice(<<"b">>)},
     resource : {"", "resource", "b"}]

InitCacheKey ==
    /\ \E service \in BOOLEAN : sv = [NoSv EXCEPT !.isService = service]
    /\ DefaultRetryCount = 0
    /\ cacheOn = TRUE
    /\ cache = EmptyCache
    /\ pc = "key_args"
    /\ \E a \in KeyArgs :
           call = [op |-> "cacheKey", key |-> a.key, scopes |-> a.scopes,
                   resource |-> a.resource]
    /\ rq = NoRq
    /\ tk = NoTk
    /\ result = [key |-> ""]
    /\ trace = <<>>

\* c.cacheKey(key, scopes, resource)
CacheKey ==
    /\ pc = "key_args"
    /\ result' = [key |-> cacheKey(call.key, call.scopes.elems, call.resource)]
    /\ pc' = "done"
    /\ UNCHANGED <<sv, DefaultRetryCount, cacheOn, cache, call, rq, tk, trace>>

SpecCacheKey == InitCacheKey /\ [][CacheKey]_vars

(***************************************************************************)
(* C23.  cacheKey(key, scopes, resource) is CacheRoot + "/" + cacheType +  *)
(* "/" + key, followed by "/" and the scopes joined with "_" in the order  *)
(* of the call only when there are scopes, followed by "/" and the         *)
(* resource only when the resource is not empty; a nil and an empty slice  *)
(* of scopes give the same key.                                            *)
(***************************************************************************)
CacheKeyReturned == call.op = "cacheKey" /\ Returned

\* The part of the key that the scopes of the call make.
ScopesPart ==
    LET scopes == call.scopes.elems
    IN  CASE scopes = <<>> -> ""
          [] scopes = <<"a">> -> "/a"
          [] scopes = <<"b">> -> "/b"
          [] scopes = <<"a", "b">> -> "/a_b"
          [] scopes = <<"a_b">> -> "/a_b"

C23_CacheKey ==
    CacheKeyReturned =>
        /\ result.key =
               (IF sv.isService THEN "sand/tokens/" ELSE "sand/resources/")
                   \o call.key
                   \o ScopesPart
                   \o (IF call.resource = "" THEN "" ELSE "/" \o call.resource)
        /\ (call.scopes = NilSlice /\ call.resource = "") =>
               result.key = CacheRoot \o "/" \o cacheType \o "/" \o call.key

\* The last key of the #cacheKey test.
C23_Witness ==
    /\ CacheKeyReturned
    /\ ~sv.isService
    /\ call.key = "hello" /\ call.scopes = Slice(<<"a", "b">>) /\ call.resource = "resource"
    /\ result.key = "sand/resources/hello/a_b/resource"

(***************************************************************************)
(* C24.  cacheKey is collision-resistant: for a fixed CacheRoot and        *)
(* cacheType, any two distinct (key, scopes, resource) tuples have         *)
(* distinct cache keys.                                                    *)
(***************************************************************************)
C24_AsStated ==
    CacheKeyReturned =>
        \A a \in KeyArgs :
            <<a.key, a.scopes.elems, a.resource>>
                    # <<call.key, call.scopes.elems, call.resource>> =>
                cacheKey(a.key, a.scopes.elems, a.resource) # result.key

(***************************************************************************)
(* Construction on its own.  NewClient and NewService are called with any  *)
(* arguments, given or left empty; `cache` is the heap of the caches that  *)
(* cache.NewGoCache has made so far, a Cache field is the place of its     *)
(* cache in it, and `result` are the variables of the caller:              *)
(*     service, err := NewService(...)      client, err := NewClient(...)  *)
(***************************************************************************)
MaxCaches == 3
defaultExpiryTime == 3595

NilClient == [nil |-> TRUE]
NilService == [nil |-> TRUE]
MissingClientArgs == [kind |-> "errorString", msg |-> "NewClient: missing required argument(s)"]
MissingServiceArgs == [kind |-> "errorString", msg |-> "NewService: missing required argument(s)"]

\* cache.NewGoCache(defaultExpiration, cleanupInterval): a new, empty cache
NewGoCache(defaultExpiration, cleanupInterval) ==
    [defaultExpiration |-> defaultExpiration, items |-> EmptyCache]

\* A faulty variant: the secret may be left empty.
NewClientWithoutSecret(id, secret, tokenURL, cacheExpiration, heap) ==
    IF id = "" \/ tokenURL = ""
    THEN [client |-> NilClient, err |-> MissingClientArgs, heap |-> heap]
    ELSE [client |-> [nil |-> FALSE, ClientID |-> id, ClientSecret |-> secret,
                      TokenURL |-> tokenURL, SkipTLSVerify |-> FALSE,
                      DefaultRetryCount |-> 5, Cache |-> Len(heap) + 1,
                      CacheRoot |-> "sand", cacheType |-> "resources"],
          err |-> NilErr,
          heap |-> Append(heap, NewGoCache(cacheExpiration, cacheExpiration))]

\* NewClientWithExpiration, with the caches made so far
NewClientWithExpiration(id, secret, tokenURL, cacheExpiration, heap) ==
    IF id = "" \/ secret = "" \/ tokenURL = ""
    THEN [client |-> NilClient, err |-> MissingClientArgs, heap |-> heap]
    ELSE [client |-> [nil |-> FALSE, ClientID |-> id, ClientSecret |-> secret,
                      TokenURL |-> tokenURL, SkipTLSVerify |-> FALSE,
                      DefaultRetryCount |-> 5, Cache |-> Len(heap) + 1,
                      CacheRoot |-> "sand", cacheType |-> "resources"],
          err |-> NilErr,
          heap |-> Append(heap, NewGoCache(cacheExpiration, cacheExpiration))]

\* NewClient
NewClient(id, secret, tokenURL, heap) ==
    NewClientWithExpiration(id, secret, tokenURL, defaultExpiryTime, heap)

\* NewService
NewService(id, secret, tokenURL, resource, verifyURL, scopes, heap) ==
    LET c == NewClient(id, secret, tokenURL, heap)
    IN  IF c.err # NilErr \/ resource = "" \/ verifyURL = ""
        THEN [service |-> NilService, err |-> MissingServiceArgs, heap |-> c.heap]
        ELSE [service |-> [nil |-> FALSE,
                           Client |-> [c.client EXCEPT !.cacheType = "tokens"],
                           Resource |-> resource, TokenVerifyURL |-> verifyURL,
                           Scopes |-> scopes, DefaultExpTime |-> 3600],
              err |-> NilErr,
              heap |-> c.heap]

NoArgs == [op |-> "", id |-> "", secret |-> "", tokenURL |-> "", resource |-> "", verifyURL |-> ""]

InitNew ==
    /\ sv = NoSv
    /\ DefaultRetryCount = 0
    /\ cacheOn = TRUE
    /\ cache = <<>>
    /\ pc = "idle"
    /\ call = NoArgs
    /\ rq = NoRq
    /\ tk = NoTk
    /\ result = [service |-> NilService, client |-> NilClient, err |-> NilErr]
    /\ trace = <<>>

\* client, err := NewClient(id, secret, tokenURL)
ConstructClient(id, secret, tokenURL) ==
    /\ Len(cache) < MaxCaches
    /\ LET new == NewClient(id, secret, tokenURL, cache)
       IN  /\ result' = [result EXCEPT !.client = new.client, !.err = new.err]
           /\ cache' = new.heap
    /\ call' = [NoArgs EXCEPT !.op = "NewClient", !.id = id, !.secret = secret,
                              !.tokenURL = tokenURL]
    /\ pc' = "done"
    /\ UNCHANGED <<sv, DefaultRetryCount, cacheOn, rq, tk, trace>>

\* service, err := NewService(id, secret, tokenURL, resource, verifyURL, scopes)
ConstructService(id, secret, tokenURL, resource, verifyURL) ==
    /\ Len(cache) < MaxCaches
    /\ LET new == NewService(id, secret, tokenURL, resource, verifyURL, <<"scope">>, cache)
       IN  /\ result' = [result EXCEPT !.service = new.service, !.err = new.err]
           /\ cache' = new.heap
    /\ call' = [op |-> "NewService", id |-> id, secret |-> secret, tokenURL |-> tokenURL,
                resource |-> resource, verifyURL |-> verifyURL]
    /\ pc' = "done"
    /\ UNCHANGED <<sv, DefaultRetryCount, cacheOn, rq, tk, trace>>

\* The arguments are given, or left empty.
NextNew ==
    \/ \E id \in {"", "i"}, secret \in {"", "s"}, tokenURL \in {"", "u"} :
           ConstructClient(id, secret, tokenURL)
    \/ \E id \in {"", "i"}, secret \in {"", "s"}, tokenURL \in {"", "u"},
          resource \in Resources, verifyURL \in {"", "/v"} :
           ConstructService(id, secret, tokenURL, resource, verifyURL)

SpecNew == InitNew /\ [][NextNew]_vars

(***************************************************************************)
(* C25.  Misconfiguration prevents construction: NewClient returns an      *)
(* error and no client when id, secret or tokenURL is empty; NewService    *)
(* returns an error and no service when any of those or resource or        *)
(* verifyURL is empty; with all required arguments given both succeed,     *)
(* with the defaults DefaultRetryCount = 5, CacheRoot = "sand" and         *)
(* DefaultExpTime = 3600.                                                  *)
(***************************************************************************)
ClientArgsMissing == call.id = "" \/ call.secret = "" \/ call.tokenURL = ""
ServiceArgsMissing == ClientArgsMissing \/ call.resource = "" \/ call.verifyURL = ""

C25_Construction ==
    /\ call.op = "NewClient" =>
           IF ClientArgsMissing
           THEN /\ result.client = NilClient
                /\ result.err # NilErr
                /\ result.err.msg = "NewClient: missing required argument(s)"
           ELSE /\ result.err = NilErr
                /\ ~result.client.nil
                /\ result.client.DefaultRetryCount = 5
                /\ result.client.CacheRoot = "sand"
                /\ result.client.Cache \in 1 .. Len(cache)
    /\ call.op = "NewService" =>
           IF ServiceArgsMissing
           THEN /\ result.service = NilService
                /\ result.err # NilErr
                /\ result.err.msg = "NewService: missing required argument(s)"
           ELSE /\ result.err = NilErr
                /\ ~result.service.nil
                /\ result.service.Client.DefaultRetryCount = 5
                /\ result.service.Client.CacheRoot = "sand"
                /\ result.service.DefaultExpTime = 3600
                /\ result.service.Client.Cache \in 1 .. Len(cache)

\* NewService without a resource, after a client was made: the client is
\* still there, the service is not.
C25_Witness ==
    /\ call = [op |-> "NewService", id |-> "i", secret |-> "s", tokenURL |-> "u",
               resource |-> "", verifyURL |-> "/v"]
    /\ result.service = NilService
    /\ result.err = MissingServiceArgs
    /\ ~result.client.nil

(***************************************************************************)
(* C30.  Clients and services made with the default cache expiration use   *)
(* the same process-wide cache: the Cache of a Service from NewService and *)
(* the Cache of a Client from NewClient are one and the same cache.        *)
(***************************************************************************)
C30_AsStated ==
    (~result.service.nil /\ ~result.client.nil) =>
        result.service.Client.Cache = result.client.Cache

(***************************************************************************)
(* The cache adapter on its own: a GoCache is written, read, deleted from  *)
(* and cleared while time passes.  `rq` keeps, for every key, what was     *)
(* last done to it and how long ago (no longer counted once it exceeds     *)
(* every TTL); `result` is what the last Read returned.                    *)
(***************************************************************************)
MaxTTL == 2
CacheKeys == {"test", "test2"}
NeverWritten == [last |-> "never", value |-> NilToken, ttl |-> 0, age |-> 0]

InitCache ==
    /\ sv = NoSv
    /\ DefaultRetryCount = 0
    /\ cacheOn = TRUE
    /\ cache = EmptyCache
    /\ pc = "idle"
    /\ call = [op |-> "NewGoCache", key |-> ""]
    /\ rq = [k \in CacheKeys |-> NeverWritten]
    /\ tk = NoTk
    /\ result = NoItem
    /\ trace = <<>>

\* goCache.Write(key, item, exp)
Write(key, item, exp) ==
    /\ cache' = CacheWrite(cache, key, item, exp)
    /\ call' = [op |-> "Write", key |-> key]
    /\ rq' = [rq EXCEPT ![key] = [last |-> "Write", value |-> item, ttl |-> exp, age |-> 0]]
    /\ UNCHANGED <<sv, DefaultRetryCount, cacheOn, pc, tk, result, trace>>

\* goCache.Read(key)
Read(key) ==
    /\ result' = CacheRead(cache, key)
    /\ call' = [op |-> "Read", key |-> key]
    /\ UNCHANGED <<sv, DefaultRetryCount, cacheOn, cache, pc, rq, tk, trace>>

\* goCache.Delete(key)
Delete(key) ==
    /\ cache' = CacheDelete(cache, key)
    /\ call' = [op |-> "Delete", key |-> key]
    /\ rq' = [rq EXCEPT ![key] = [NeverWritten EXCEPT !.last = "Delete"]]
    /\ UNCHANGED <<sv, DefaultRetryCount, cacheOn, pc, tk, result, trace>>

\* goCache.Clear()
Clear ==
    /\ cache' = CacheClear(cache)
    /\ call' = [op |-> "Clear", key |-> ""]
    /\ rq' = [k \in CacheKeys |-> [NeverWritten EXCEPT !.last = "Clear"]]
    /\ UNCHANGED <<sv, DefaultRetryCount, cacheOn, pc, tk, result, trace>>

\* time.Sleep: a unit of time passes
Sleep ==
    /\ cache' = Elapse(cache, 1)
    /\ call' = [op |-> "Sleep", key |-> ""]
    /\ rq' = [k \in CacheKeys |->
                  [rq[k] EXCEPT !.age = IF rq[k].age > MaxTTL THEN rq[k].age
                                        ELSE rq[k].age + 1]]
    /\ UNCHANGED <<sv, DefaultRetryCount, cacheOn, pc, tk, result, trace>>

\* The values written are a token without expiry and a verdict without "exp",
\* which the passing of time leaves as they are.
NextCache ==
    \/ \E k \in CacheKeys, v \in {IssuedToken("abc", 0), notAllowedResponse},
          T \in 0 .. MaxTTL : Write(k, v, T)
    \/ \E k \in CacheKeys : Read(k)
    \/ \E k \in CacheKeys : Delete(k)
    \/ Clear
    \/ Sleep

SpecCache == InitCache /\ [][NextCache]_vars

(***************************************************************************)
(* C26.  In the cache adapter, Write with a TTL of zero stores an entry    *)
(* that never expires (it is not given the default expiration of the cache *)
(* and does not expire at once), while Write with a positive TTL stores an *)
(* entry that is absent once that TTL has elapsed.                         *)
(***************************************************************************)
C26_WriteTTL ==
    \A k \in CacheKeys :
        /\ (rq[k].last = "Write" /\ rq[k].ttl = 0) =>
               /\ k \in DOMAIN cache
               /\ cache[k].Expiration = NoExpiration
               /\ CacheRead(cache, k) = [found |-> TRUE, Object |-> rq[k].value]
        /\ (rq[k].last = "Write" /\ rq[k].ttl > 0 /\ rq[k].age > rq[k].ttl) =>
               /\ k \notin DOMAIN cache
               /\ ~CacheRead(cache, k).found
        /\ (call = [op |-> "Read", key |-> k] /\ rq[k].last = "Write") =>
               result.found = (rq[k].ttl = 0 \/ rq[k].age <= rq[k].ttl)

\* An entry written with TTL 0 is read after more time than any TTL, while
\* the entry written with TTL 1 at the same time is gone.
C26_Witness ==
    /\ rq["test"] = [last |-> "Write", value |-> IssuedToken("abc", 0), ttl |-> 0,
                     age |-> MaxTTL + 1]
    /\ rq["test2"].last = "Write" /\ rq["test2"].ttl = 1 /\ rq["test2"].age = MaxTTL + 1
    /\ call = [op |-> "Read", key |-> "test"]
    /\ result = [found |-> TRUE, Object |-> IssuedToken("abc", 0)]
    /\ "test2" \notin DOMAIN cache

\* What Read(k) has to return by what was last done to k.
Expected(k) ==
    IF rq[k].last = "Write" /\ (rq[k].ttl = 0 \/ rq[k].age <= rq[k].ttl)
    THEN [found |-> TRUE, Object |-> rq[k].value]
    ELSE NoItem

\* Every key reads as what was last done to it demands.
ReadsAsExpected ==
    /\ \A k \in CacheKeys : CacheRead(cache, k) = Expected(k)
    /\ \A k \in CacheKeys : call = [op |-> "Read", key |-> k] => result = Expected(k)
    /\ call.op = "Clear" => \A k \in CacheKeys : ~CacheRead(cache, k).found
    /\ call.op = "Delete" => ~CacheRead(cache, call.key).found

\* Delete(k) leaves the entry of every other key as it was.
DeleteFrame ==
    \A k \in CacheKeys :
        (call'.op = "Delete" /\ call'.key = k /\ rq'[k].last = "Delete") =>
            \A j \in CacheKeys \ {k} :
                /\ (j \in DOMAIN cache') = (j \in DOMAIN cache)
                /\ j \in DOMAIN cache => cache'[j] = cache[j]

(***************************************************************************)
(* C27.  Cache round trip: after Write(k, v, T), Read(k) returns v until T *)
(* elapses; after T has elapsed or after Delete(k), Read(k) returns        *)
(* absent; Delete(k) leaves every other key's entry unchanged and Clear()  *)
(* makes every key absent; a key never written reads as absent.            *)
(***************************************************************************)
C27_RoundTrip == []ReadsAsExpected /\ [][DeleteFrame]_vars

\* "test2" has been deleted and reads as absent; "test", written with a TTL
\* that has not yet elapsed, is still there.
C27_Witness ==
    /\ rq["test2"].last = "Delete"
    /\ call = [op |-> "Read", key |-> "test2"]
    /\ result = NoItem
    /\ rq["test"].last = "Write" /\ rq["test"].ttl = 2 /\ rq["test"].age = 1
    /\ CacheRead(cache, "test") = [found |-> TRUE, Object |-> rq["test"].value]

(***************************************************************************)
(* ExtractToken on its own.  The header is put together from its parts:    *)
(* spaces in front, a scheme, a gap, a token, more fields, spaces behind.  *)
(* More fields come only after a token, so that the parts of a header are  *)
(* what they are called.                                                   *)
(***************************************************************************)
BearerSchemes ==
    {<<"B", "e", "a", "r", "e", "r">>, <<"b", "e", "a", "r", "e", "r">>,
     <<"B", "E", "A", "R", "E", "R">>}

HeaderParts ==
    {p \in [front : {<<>>, <<" ">>},
            scheme : BearerSchemes
                         \cup {<<>>, <<"b", "e", "a", "r">>, <<"B", "a", "s", "i", "c">>},
            gap : {<<>>, <<" ">>, <<" ", " ">>},
            token : {<<>>, <<"a", "b", "c">>},
            more : {<<>>, <<" ", "d">>},
            behind : {<<>>, <<" ">>}] :
        p.token = <<>> => p.more = <<>>}

\* The header of these parts.
HeaderOf(p) == p.front \o p.scheme \o p.gap \o p.token \o p.more \o p.behind

InitExtractToken ==
    /\ sv = NoSv
    /\ DefaultRetryCount = 0
    /\ cacheOn = FALSE
    /\ cache = EmptyCache
    /\ pc = "header"
    /\ \E p \in HeaderParts :
           call = [op |-> "ExtractToken", parts |-> p, authHeader |-> HeaderOf(p)]
    /\ rq = NoRq
    /\ tk = NoTk
    /\ result = [token |-> ""]
    /\ trace = <<>>

\* ExtractToken(authHeader)
ExtractTokenReturns ==
    /\ pc = "header"
    /\ result' = [token |-> ExtractToken(call.authHeader)]
    /\ pc' = "done"
    /\ UNCHANGED <<sv, DefaultRetryCount, cacheOn, cache, call, rq, tk, trace>>

SpecExtractToken == InitExtractToken /\ [][ExtractTokenReturns]_vars

(***************************************************************************)
(* C28.  ExtractToken returns the token from an Authorization header of    *)
(* the shape "Bearer <token>", with the scheme matched without regard to   *)
(* case and the spaces around the header ignored (the second field between *)
(* single spaces is the token, later fields are ignored), and returns the  *)
(* empty token for every other shape (empty header, scheme only, another   *)
(* scheme, no single space between scheme and token).                      *)
(***************************************************************************)
C28_ExtractToken ==
    (call.op = "ExtractToken" /\ Returned) =>
        LET p == call.parts
        IN  IF p.scheme \in BearerSchemes /\ p.gap = <<" ">> /\ p.token # <<>>
            THEN /\ p.token = <<"a", "b", "c">>
                 /\ result.token = "abc"
            ELSE result.token = ""

\* " bearer abc d ": spaces around, the scheme in small letters, a field more.
C28_Witness ==
    /\ call.op = "ExtractToken" /\ Returned
    /\ call.authHeader = <<" ", "b", "e", "a", "r", "e", "r", " ", "a", "b", "c", " ", "d", " ">>
    /\ result.token = "abc"

(***************************************************************************)
(* C29.  RequestWithCustomRetry called with a negative numRetry is         *)
(* equivalent to Request: for every DefaultRetryCount both use the same    *)
(* client-request retry count and the same token-fetch retry count, and so *)
(* make the same token fetches, sleeps, invalidations and invocations of   *)
(* exec.  Request is RequestWithCustomRetry with numRetry =                *)
(* DefaultRetryCount, so its counts are those of (D, D).                   *)
(***************************************************************************)
\* The counts of Request with this client.
RequestClientRetry == clientRequestRetryCount(DefaultRetryCount, DefaultRetryCount)
RequestTokenRetry == tokenRequestRetryCount(DefaultRetryCount, DefaultRetryCount)

C29_NegativeIsRequest ==
    (InRequest /\ call.numRetry < 0) =>
        /\ rq.clientRetry = RequestClientRetry
        /\ TokenRetries = RequestTokenRetry
        /\ tk.ret = "request" =>
               /\ tokenRequestRetryCount(DefaultRetryCount, tk.numRetry) = RequestTokenRetry
               /\ tk.retry <= RequestTokenRetry
        /\ tk.ret = "retry" => tk.numRetry = 0 /\ tk.retry = 0
        /\ (pc = "tok_read" /\ trace = <<>>) =>
               /\ rq = [NoRq EXCEPT !.clientRetry = RequestClientRetry]
               /\ tk = [EnterToken(DefaultRetryCount, "request") EXCEPT
                            !.numRetry = call.numRetry]
        /\ FetchesBetween(0, IF FirstExecAt = 0 THEN Len(trace) + 1 ELSE FirstExecAt)
               <= 1 + RequestTokenRetry
        /\ Len(Execs) <= 1 + RequestClientRetry
        /\ Len(Sleeps) <= RequestClientRetry
        /\ Len(Deletes) <= Len(Sleeps)
        /\ \A i \in 1 .. Len(Sleeps) : Sleeps[i].n = Pow2(i - 1)
        /\ (Returned /\ result.err = NilErr /\ ~result.resp.nil
            /\ result.resp.StatusCode = StatusUnauthorized) =>
               /\ Len(Execs) = 1 + RequestClientRetry
               /\ Len(Sleeps) = RequestClientRetry

\* numRetry = -1 with the largest DefaultRetryCount and a service that keeps
\* answering 401: as many retries as Request makes.
C29_Witness ==
    /\ InRequest /\ Returned
    /\ call.numRetry = -1
    /\ DefaultRetryCount = MaxRetry
    /\ result.resp.StatusCode = StatusUnauthorized
    /\ Len(Execs) = 1 + MaxRetry
    /\ Len(Sleeps) = MaxRetry

(***************************************************************************)
(* C39.  When the token re-fetch of a 401 retry iteration fails, Request   *)
(* returns at once the 401 response it had, together with the              *)
(* AuthenticationError: that failed fetch is the last thing the call did   *)
(* (no exec, sleep or invalidation after it).  When the first token fetch  *)
(* fails, Request returns a nil response with the AuthenticationError and  *)
(* exec is never invoked.                                                  *)
(***************************************************************************)
\* The token request at position i of the trace failed.
FailedFetchAt(i) == IsFetch(trace[i]) /\ ~trace[i].ok

C39_TokenFailureStopsRequest ==
    InRequest =>
        /\ \A i \in 1 .. Len(trace) :
               (FailedFetchAt(i) /\ FirstExecAt > 0 /\ i > FirstExecAt) =>
                   /\ i = Len(trace)
                   /\ Returned
                   /\ Is401(Last(Execs))
                   /\ result.resp = Response(StatusUnauthorized)
                   /\ result.err.kind = "AuthenticationError"
                   /\ result.err.msg = OAuthErr.msg
                   /\ Len(Sleeps) = Len(Execs)
                   /\ cacheOn => Len(Deletes) = Len(Execs)
        /\ (Returned /\ FirstExecAt = 0) =>
               /\ FailedFetchAt(Len(trace))
               /\ result.resp = NilResp
               /\ result.err.kind = "AuthenticationError"
               /\ result.err.msg = OAuthErr.msg
               /\ Len(Sleeps) = 0
               /\ Len(Deletes) = 0
        /\ (pc = "tok_sleep" /\ FirstExecAt = 0) => tk.ret = "request"

\* The second retry iteration's re-fetch fails: exec ran twice, both 401,
\* two sleeps and two invalidations, then the error.
C39_Witness ==
    /\ InRequest /\ Returned /\ cacheOn
    /\ call.cacheKey # ""
    /\ Len(Execs) = 2
    /\ Len(Deletes) = 2
    /\ FailedFetchAt(Len(trace))
    /\ result.resp = Response(StatusUnauthorized)
    /\ result.err.kind = "AuthenticationError"

(***************************************************************************)
(* Request and Token on a client with a cache, called with scope lists     *)
(* that strings.Join(scopes, "_") does not tell apart.                     *)
(***************************************************************************)
ScopeListsJoinedAlike == {<<"a", "b">>, <<"a_b">>}

InitJoinedAlike ==
    /\ sv = NoSv
    /\ DefaultRetryCount \in {0, 1}
    /\ cacheOn = TRUE
    /\ cache = EmptyCache
    /\ pc = "idle"
    /\ call = NoCall
    /\ rq = NoRq
    /\ tk = NoTk
    /\ result = NoResult
    /\ trace = <<>>

NextJoinedAlike ==
    \/ \E s \in ScopeListsJoinedAlike, n \in {0, 1} : Token("resource", s, n)
    \/ \E s \in ScopeListsJoinedAlike : Request("resource", s)
    \/ OAuth2TokenRead
    \/ TokenRequestOK
    \/ TokenRequestFails
    \/ TokenSleep
    \/ OAuth2TokenWrite
    \/ ExecResponds
    \/ ExecFails
    \/ ExecReturnsNothing
    \/ RetrySleep
    \/ RetryInvalidate
    \/ Return
    \/ Tick

SpecJoinedAlike == InitJoinedAlike /\ [][NextJoinedAlike]_vars

(***************************************************************************)
(* C38.  The invalidation of a Request retry removes only the token entry  *)
(* of the call's own (cacheKey, scopes): the entry of every other scope    *)
(* list of the same logical key is in the cache after the invalidation as  *)
(* it was before it.                                                       *)
(***************************************************************************)
\* The cache entry of the token of (key, scopes), NoItem when there is none.
TokenEntry(items, key, scopes) == CacheRead(items, cacheKey(key, scopes, ""))

C38_AsStated ==
    [][ (pc = "delete" /\ InRequest) =>
            \A s \in ScopeListsJoinedAlike \ {call.scopes} :
                TokenEntry(cache', call.cacheKey, s) = TokenEntry(cache, call.cacheKey, s)
      ]_vars

(***************************************************************************)
(* C35.  A token that carries an expiry is never cached beyond it: every   *)
(* cache entry holding a token with a non-zero expiry has a TTL, and the   *)
(* TTL ends no later than the token's expiry; no such token is stored as   *)
(* never expiring.                                                         *)
(***************************************************************************)
C35_AsStated ==
    \A k \in DOMAIN cache :
        (IsOAuth2Token(cache[k].Object) /\ ~cache[k].Object.ExpiryIsZero) =>
            /\ cache[k].Expiration # NoExpiration
            /\ cache[k].Expiration <= cache[k].Object.Expiry

(***************************************************************************)
(* C36.  As stated: the TTL under which an allowed verdict is in the cache *)
(* never exceeds the time left until the "exp" the verification endpoint   *)
(* gave with it, also when that "exp" had passed when it was cached.       *)
(***************************************************************************)
\* The cache entries that hold an allowed verdict with a well-formed "exp".
AllowedWithExp ==
    {k \in DOMAIN cache :
         /\ IsVerdict(cache[k].Object)
         /\ cache[k].Object.allowed = JBool(TRUE)
         /\ cache[k].Object.exp.str = iso8601}

C36_AsStated ==
    \A k \in AllowedWithExp :
        /\ cache[k].Expiration # NoExpiration
        /\ cache[k].Expiration <= cache[k].Object.exp.unix

(***************************************************************************)
(* C36, amended.  An allowed verdict whose "exp" lies in a later clock     *)
(* second than the time of caching is cached under a TTL of exp - now in   *)
(* whole seconds; an allowed verdict whose "exp" has passed, or lies in    *)
(* the running second, when it is cached is cached for DefaultExpTime and  *)
(* is served from the cache for that long after "exp".  With a positive    *)
(* DefaultExpTime no allowed verdict with an "exp" is cached as never      *)
(* expiring.                                                               *)
(***************************************************************************)
C36_VerdictTTL ==
    /\ \A k \in AllowedWithExp :
           /\ cache[k].Expiration # NoExpiration
           /\ \/ cache[k].Expiration = cache[k].Object.exp.unix
              \/ /\ cache[k].Object.exp.unix <= 0
                 /\ cache[k].Expiration <= sv.DefaultExpTime
    /\ (InService /\ Returned /\ Len(trace) > 0 /\ IsVerdictWrite(Last(trace))
        /\ Last(trace).ok /\ VerdictKey \in AllowedWithExp) =>
           cache[VerdictKey].Expiration =
               (IF sv.out.resp.exp.unix > 0 THEN sv.out.resp.exp.unix
                ELSE sv.DefaultExpTime)

\* An allowed verdict that had expired when it arrived, cached for
\* DefaultExpTime.
C36_Witness ==
    /\ InService /\ Returned /\ cacheOn
    /\ Len(trace) > 0
    /\ Last(trace) = Event("vwrite", sv.DefaultExpTime, TRUE)
    /\ result.rv = Verdict(JBool(TRUE), JTime(-1))
    /\ VerdictKey \in AllowedWithExp
    /\ cache[VerdictKey].Expiration = sv.DefaultExpTime

(***************************************************************************)
(* C40.  When the verification endpoint answers 401 to a verification      *)
(* request, the service does not keep the access token it sent: the        *)
(* "service-access-token" entry is not in the cache when the call returns, *)
(* so that the next verification does not read the rejected token from the *)
(* cache but fetches a fresh one.                                          *)
(***************************************************************************)
\* The cache key of the service's own access token.
ServiceTokenKey == cacheKey("service-access-token", sv.Scopes, "")

C40_AsStated ==
    [][ (pc = "verify" /\ cacheOn /\ pc' = "done"
         /\ Last(trace') = Event("verify", StatusUnauthorized, TRUE)) =>
            ServiceTokenKey \notin DOMAIN cache'
      ]_vars

(***************************************************************************)
(* buildOption on its own: a Service with its defaults is given an option  *)
(* with some fields set and some not.                                      *)
(***************************************************************************)
\* The options a caller may pass.
Options ==
    [TargetScopes : {NilSlice, Slice(<<>>), Slice(<<"target">>)},
     Resource : {"", "resource"},
     Action : {"", "action"},
     Context : {NilMap, Map(<<>>), Map(<< <<"test", "context">> >>)},
     NumRetry : {NilInt} \cup {IntPtr(n) : n \in -1 .. MaxRetry + 1}]

InitBuildOption ==
    /\ \E r \in {"", "r"}, c \in {NilMap, Map(<< <<"test", "default">> >>)} :
           sv = [NoSv EXCEPT !.isService = TRUE, !.Resource = r, !.Context = c]
    /\ DefaultRetryCount \in RetryCounts
    /\ cacheOn = TRUE
    /\ cache = EmptyCache
    /\ pc = "option"
    /\ \E opt \in Options : call = [op |-> "buildOption", opt |-> opt]
    /\ rq = NoRq
    /\ tk = NoTk
    /\ result = [opt |-> NoOpt]
    /\ trace = <<>>

\* s.buildOption(&opt)
BuildOption ==
    /\ pc = "option"
    /\ result' = [opt |-> buildOption(call.opt)]
    /\ pc' = "done"
    /\ UNCHANGED <<sv, DefaultRetryCount, cacheOn, cache, call, rq, tk, trace>>

SpecBuildOption == InitBuildOption /\ [][BuildOption]_vars

(***************************************************************************)
(* C32.  buildOption leaves every field the caller set as it is (Resource, *)
(* Context and TargetScopes that are not empty, Action, NumRetry >= 0) and *)
(* fills the others: Resource and Context from the Service, TargetScopes   *)
(* as the empty (non-nil) list, NumRetry by the rule of the token-fetch    *)
(* retry count (nil and negative become DefaultRetryCount, and 0 when that *)
(* is negative too); afterwards NumRetry is not nil and >= 0.              *)
(***************************************************************************)
BuildOptionReturned == call.op = "buildOption" /\ Returned

C32_BuildOption ==
    BuildOptionReturned =>
        LET given == call.opt
            built == result.opt
        IN  /\ built.Resource = (IF given.Resource # "" THEN given.Resource ELSE sv.Resource)
            /\ built.Context =
                   (IF Len(given.Context.entries) > 0 THEN given.Context ELSE sv.Context)
            /\ built.TargetScopes =
                   (IF Len(given.TargetScopes.elems) > 0 THEN given.TargetScopes
                    ELSE Slice(<<>>))
            /\ built.Action = given.Action
            /\ ~built.NumRetry.nil
            /\ built.NumRetry.n >= 0
            /\ built.NumRetry.n =
                   (IF ~given.NumRetry.nil /\ given.NumRetry.n >= 0 THEN given.NumRetry.n
                    ELSE IF DefaultRetryCount >= 0 THEN DefaultRetryCount
                    ELSE 0)

\* An option with every field set, given to a Service with other defaults,
\* has come back as it was.
C32_Witness ==
    /\ BuildOptionReturned
    /\ sv.Resource = "r"
    /\ sv.Context = Map(<< <<"test", "default">> >>)
    /\ DefaultRetryCount = 1
    /\ call.opt = [TargetScopes |-> Slice(<<"target">>), Resource |-> "resource",
                   Action |-> "action", Context |-> Map(<< <<"test", "context">> >>),
                   NumRetry |-> IntPtr(MaxRetry + 1)]
    /\ result.opt = call.opt

(***************************************************************************)
(* A Service with a cache that is asked to verify one bearer token for     *)
(* different actions and contexts.  sv.last notes, for every cache key of  *)
(* a verdict, the option of the verification request whose verdict was     *)
(* written under it (kept for the properties only).                        *)
(***************************************************************************)
InitActions ==
    /\ sv = [NoSv EXCEPT !.isService = TRUE, !.Resource = "resource",
                         !.Scopes = <<"scope">>, !.DefaultExpTime = MaxExpTime,
                         !.last = <<>>]
    /\ DefaultRetryCount = 0
    /\ cacheOn = TRUE
    /\ cache = EmptyCache
    /\ pc = "idle"
    /\ call = NoCall
    /\ rq = NoRq
    /\ tk = NoTk
    /\ result = NoResult
    /\ trace = <<>>

\* The call of the service has returned; the caller goes on.
ServiceReturnNoted ==
    /\ pc = "done"
    /\ pc' = "idle"
    /\ sv' = [sv EXCEPT
                 !.header = NoHeader, !.token = "", !.opt = NoOpt, !.out = NoOut,
                 !.last = IF Len(trace) > 0 /\ trace[Len(trace)].ev = "vwrite"
                             /\ trace[Len(trace)].ok
                          THEN (VerdictKey :> sv.opt) @@ sv.last
                          ELSE sv.last]
    /\ call' = NoCall
    /\ rq' = NoRq
    /\ tk' = NoTk
    /\ result' = NoResult
    /\ trace' = <<>>
    /\ UNCHANGED <<DefaultRetryCount, cacheOn, cache>>

NextActions ==
    \/ \E s \in ScopeLists, a \in {"read", "write"},
          c \in {NilMap, Map(<< <<"ip", "10.0.0.1">> >>)} :
           VerifyTokenWithCache("abc", [NoOpt EXCEPT !.TargetScopes = Slice(s),
                                                     !.Action = a, !.Context = c])
    \/ VerdictRead
    \/ OAuth2TokenRead
    \/ TokenRequestOK
    \/ OAuth2TokenWrite
    \/ \E allowed \in BOOLEAN, exp \in {JAbsent, JTime(1)}, written \in BOOLEAN :
           VerifyResponds(StatusOK, Body("{}", Verdict(JBool(allowed), exp)), written)
    \/ VerifyRefuses
    \/ ServiceReturnNoted
    \/ Tick

SpecActions == InitActions /\ [][NextActions]_vars

(***************************************************************************)
(* C33.  A verdict that VerifyTokenWithCache returns from the cache was    *)
(* produced by a verification request with the token, target scopes,       *)
(* resource, action and context of the running call.                       *)
(***************************************************************************)
C33_AsStated ==
    (InService /\ Returned /\ trace = <<Event("vread", 0, TRUE)>>) =>
        /\ VerdictKey \in DOMAIN sv.last
        /\ sv.last[VerdictKey] = sv.opt

(***************************************************************************)
(* Two Clients with different credentials that have been given the same    *)
(* Cache (and have the same CacheRoot).  sv.ClientID is the client the     *)
(* calls are made on; the authorization server issues every client its own *)
(* access tokens.                                                          *)
(***************************************************************************)
InitClients ==
    /\ sv = [NoSv EXCEPT !.ClientID = "a"]
    /\ DefaultRetryCount = 0
    /\ cacheOn = TRUE
    /\ cache = EmptyCache
    /\ pc = "idle"
    /\ call = NoCall
    /\ rq = NoRq
    /\ tk = NoTk
    /\ result = NoResult
    /\ trace = <<>>

\* The application turns to the other client.
OtherClient ==
    /\ pc = "idle"
    /\ sv' = [sv EXCEPT !.ClientID = IF sv.ClientID = "a" THEN "b" ELSE "a"]
    /\ UNCHANGED <<DefaultRetryCount, cacheOn, cache, pc, call, rq, tk, result, trace>>

\* The access token the authorization server issues for the credentials of
\* the client `id`.
AccessTokenOf(id) == "token of " \o id

\* config.Token(ctx) with the ClientID, ClientSecret and TokenURL of the
\* client: the authorization server answers with a token of that client.
TokenRequestWithCredentials ==
    \E e \in ExpiresIn : TokenRequest(IssuedToken(AccessTokenOf(sv.ClientID), e), NilErr)

NextClients ==
    \/ OtherClient
    \/ \E k \in Keys, s \in ScopeLists : Token(k, s, 0)
    \/ OAuth2TokenRead
    \/ TokenRequestWithCredentials
    \/ TokenRequestFails
    \/ OAuth2TokenWrite
    \/ Return
    \/ Tick

SpecClients == InitClients /\ [][NextClients]_vars

(***************************************************************************)
(* C34.  With two Clients of different credentials on one Cache and one    *)
(* CacheRoot, Token on a client never returns an access token that was     *)
(* fetched with the credentials of the other client, also when both use    *)
(* the same key and scopes.                                                *)
(***************************************************************************)
C34_AsStated ==
    (InToken /\ Returned /\ result.err = NilErr) =>
        result.token = AccessTokenOf(sv.ClientID)

(***************************************************************************)
(* Goroutines on one Client with a cache: each makes one call, Token or    *)
(* Request, for the same key and scopes, and their steps interleave.  The  *)
(* Client adds no lock of its own; every operation of the Cache is atomic. *)
(* pc, call, tk, rq and result are kept per goroutine, and the trace is    *)
(* the order in which the steps that matter took place.  The authorization *)
(* server issues a new access token on every request.                      *)
(***************************************************************************)
Goroutines == {"g", "h"}

\* A step of the goroutine `by` that is noted, with the access token it
\* is about.
Step(ev, by, token) == [ev |-> ev, by |-> by, token |-> token]

InitGoroutines ==
    /\ sv = NoSv
    /\ DefaultRetryCount = 1
    /\ cacheOn = TRUE
    /\ cache = EmptyCache
    /\ pc = [g \in Goroutines |-> "idle"]
    /\ call = [g \in Goroutines |-> NoCall]
    /\ rq = [g \in Goroutines |-> NoRq]
    /\ tk = [g \in Goroutines |-> NoTk]
    /\ result = [g \in Goroutines |-> NoResult]
    /\ trace = <<>>

\* go c.Token("resource", []string{"scope"}, 0)
GoToken(g) ==
    /\ pc[g] = "idle"
    /\ call' = [call EXCEPT ![g] = [op |-> "Token", cacheKey |-> "resource",
                                    scopes |-> <<"scope">>, numRetry |-> 0]]
    /\ tk' = [tk EXCEPT ![g] = EnterToken(0, "top")]
    /\ pc' = [pc EXCEPT ![g] = "tok_read"]
    /\ UNCHANGED <<sv, DefaultRetryCount, cacheOn, cache, rq, result, trace>>

\* go c.Request("resource", []string{"scope"}, exec)
GoRequest(g) ==
    /\ pc[g] = "idle"
    /\ call' = [call EXCEPT ![g] = [op |-> "Request", cacheKey |-> "resource",
                                    scopes |-> <<"scope">>,
                                    numRetry |-> DefaultRetryCount]]
    /\ rq' = [rq EXCEPT ![g] = [NoRq EXCEPT !.clientRetry =
                  clientRequestRetryCount(DefaultRetryCount, DefaultRetryCount)]]
    /\ tk' = [tk EXCEPT ![g] = EnterToken(DefaultRetryCount, "request")]
    /\ pc' = [pc EXCEPT ![g] = "tok_read"]
    /\ UNCHANGED <<sv, DefaultRetryCount, cacheOn, cache, result, trace>>

\* Token returns the access token to the place it was called from in g.
GoTokenReturns(g, access) ==
    IF tk[g].ret = "top"
    THEN /\ result' = [result EXCEPT ![g] = [NoResult EXCEPT !.token = access]]
         /\ pc' = [pc EXCEPT ![g] = "done"]
         /\ rq' = rq
    ELSE /\ rq' = [rq EXCEPT ![g].token = access]
         /\ pc' = [pc EXCEPT ![g] = "exec"]
         /\ result' = result

\* OAuth2Token in g, the cache lookup.
GoOAuth2TokenRead(g) ==
    /\ pc[g] = "tok_read"
    /\ LET value == CacheRead(cache, cacheKey(call[g].cacheKey, call[g].scopes, ""))
       IN  IF value.found /\ IsOAuth2Token(value.Object)
           THEN /\ trace' = Append(trace, Step("read", g, value.Object.AccessToken))
                /\ tk' = [tk EXCEPT ![g].token = value.Object]
                /\ GoTokenReturns(g, value.Object.AccessToken)
           ELSE /\ pc' = [pc EXCEPT ![g] = "tok_fetch"]
                /\ UNCHANGED <<tk, rq, result, trace>>
    /\ UNCHANGED <<sv, DefaultRetryCount, cacheOn, cache, call>>

\* OAuth2TokenWithoutCaching in g: the authorization server issues a token.
GoTokenRequest(g) ==
    /\ pc[g] = "tok_fetch"
    /\ LET token == IssuedToken("token " \o ToString(Len(trace) + 1), 0)
       IN  /\ trace' = Append(trace, Step("fetch", g, token.AccessToken))
           /\ tk' = [tk EXCEPT ![g].token = token]
    /\ pc' = [pc EXCEPT ![g] = "tok_write"]
    /\ UNCHANGED <<sv, DefaultRetryCount, cacheOn, cache, call, rq, result>>

\* OAuth2Token in g, after the fetch: cache the token and return it.
GoOAuth2TokenWrite(g) ==
    /\ pc[g] = "tok_write"
    /\ LET expiresIn == ExpiresInSeconds(tk[g].token)
           ckey == cacheKey(call[g].cacheKey, call[g].scopes, "")
       IN  IF expiresIn >= 0
           THEN /\ cache' = CacheWrite(cache, ckey, tk[g].token, expiresIn)
                /\ trace' = Append(trace, Step("write", g, tk[g].token.AccessToken))
           ELSE /\ cache' = cache
                /\ trace' = trace
    /\ tk' = tk
    /\ GoTokenReturns(g, tk[g].token.AccessToken)
    /\ UNCHANGED <<sv, DefaultRetryCount, cacheOn, call>>

\* exec(token) in g answers 200 or 401.
GoExec(g) ==
    /\ pc[g] = "exec"
    /\ \E status \in {StatusOK, StatusUnauthorized} :
           LET retry == IF rq[g].first THEN 0 ELSE rq[g].retry + 1
               next == AfterExec(Response(status), NilErr, retry, rq[g].clientRetry)
           IN  /\ rq' = [rq EXCEPT ![g].resp = Response(status), ![g].retry = retry,
                                   ![g].first = FALSE]
               /\ pc' = [pc EXCEPT ![g] = next]
               /\ result' = IF next = "done"
                            THEN [result EXCEPT ![g] = RequestReturns(Response(status), NilErr)]
                            ELSE result
    /\ trace' = Append(trace, Step("exec", g, rq[g].token))
    /\ UNCHANGED <<sv, DefaultRetryCount, cacheOn, cache, call, tk>>

\* A retry iteration of g: the backoff sleep.
GoRetrySleep(g) ==
    /\ pc[g] = "sleep"
    /\ pc' = [pc EXCEPT ![g] = "delete"]
    /\ UNCHANGED <<sv, DefaultRetryCount, cacheOn, cache, call, rq, tk, result, trace>>

\* A retry iteration of g: drop the cached token, then call Token again.
GoRetryInvalidate(g) ==
    /\ pc[g] = "delete"
    /\ cache' = CacheDelete(cache, cacheKey(call[g].cacheKey, call[g].scopes, ""))
    /\ trace' = Append(trace, Step("delete", g, ""))
    /\ tk' = [tk EXCEPT ![g] = EnterToken(RetryTokenNumRetry, "retry")]
    /\ pc' = [pc EXCEPT ![g] = "tok_read"]
    /\ UNCHANGED <<sv, DefaultRetryCount, cacheOn, call, rq, result>>

NextGoroutines ==
    \E g \in Goroutines :
        \/ GoToken(g)
        \/ GoRequest(g)
        \/ GoOAuth2TokenRead(g)
        \/ GoTokenRequest(g)
        \/ GoOAuth2TokenWrite(g)
        \/ GoExec(g)
        \/ GoRetrySleep(g)
        \/ GoRetryInvalidate(g)

SpecGoroutines == InitGoroutines /\ [][NextGoroutines]_vars

(***************************************************************************)
(* Reading the trace of the goroutines.                                    *)
(***************************************************************************)
\* The positions of the trace at which goroutine g did `ev`.
StepsOf(g, ev) == {i \in 1 .. Len(trace) : trace[i].ev = ev /\ trace[i].by = g}
\* The positions at which any goroutine did `ev`.
StepsOfAll(ev) == UNION {StepsOf(g, ev) : g \in Goroutines}
\* The access tokens the authorization server has issued.
Issued == {trace[i].token : i \in StepsOfAll("fetch")}
Max(S) == CHOOSE i \in S : \A j \in S : j <= i
\* The cache key all goroutines use.
SharedKey == cacheKey("resource", <<"scope">>, "")

(***************************************************************************)
(* C31.  Two goroutines call Token for the same key and scopes on a Client *)
(* whose cache has no entry.  Their fetches are not coalesced; each        *)
(* returns, without an error, a token the authorization server issued:     *)
(* the one it fetched itself, or the one it found in the cache.  Once both *)
(* have returned, the cache entry of the key holds the issued token that   *)
(* was written last.                                                       *)
(***************************************************************************)
C31_ConcurrentTokens ==
    (\A g \in Goroutines : call[g].op \in {"none", "Token"}) =>
        /\ \A g \in Goroutines :
               pc[g] = "done" =>
                   /\ result[g].err = NilErr
                   /\ result[g].token \in Issued
                   /\ IF StepsOf(g, "fetch") # {}
                      THEN /\ Cardinality(StepsOf(g, "fetch")) = 1
                           /\ StepsOf(g, "read") = {}
                           /\ result[g].token = trace[Max(StepsOf(g, "fetch"))].token
                      ELSE /\ Cardinality(StepsOf(g, "read")) = 1
                           /\ result[g].token = trace[Max(StepsOf(g, "read"))].token
        /\ (\A g \in Goroutines : pc[g] = "done") =>
               /\ SharedKey \in DOMAIN cache
               /\ DOMAIN cache = {SharedKey}
               /\ cache[SharedKey].Object.AccessToken \in Issued
               /\ cache[SharedKey].Object.AccessToken =
                      trace[Max(StepsOfAll("write"))].token
        /\ \A i \in StepsOfAll("write") : trace[i].token \in Issued
        /\ \A i \in StepsOfAll("read") : trace[i].token \in Issued

\* Both goroutines missed the cache and fetched: two tokens were issued,
\* each goroutine returned its own, and the cache holds the one of the
\* goroutine that wrote last, which is the one that fetched first.
C31_Witness ==
    /\ \A g \in Goroutines : call[g].op = "Token" /\ pc[g] = "done"
    /\ Cardinality(Issued) = 2
    /\ result["g"].token # result["h"].token
    /\ trace[1] = Step("fetch", "g", result["g"].token)
    /\ cache[SharedKey].Object.AccessToken = result["g"].token

(***************************************************************************)
(* C37.  In every retry iteration of Request with a cache, the token given *)
(* to the re-invoked exec was fetched from the authorization server after  *)
(* the cache invalidation of that iteration, also when other goroutines    *)
(* call Token or Request on the same Client and key in between.            *)
(***************************************************************************)
\* The last invalidation that goroutine g did before position i (0: none).
InvalidatedAt(g, i) ==
    IF \E j \in StepsOf(g, "delete") : j < i
    THEN Max({j \in StepsOf(g, "delete") : j < i})
    ELSE 0

C37_AsStated ==
    \A i \in StepsOfAll("exec") :
        InvalidatedAt(trace[i].by, i) > 0 =>
            \E k \in StepsOfAll("fetch") :
                /\ trace[k].token = trace[i].token
                /\ k > InvalidatedAt(trace[i].by, i)

====
